---- MODULE Spec2Model ----
(***************************************************************************)
(* A model of planning.py: PDDL problems and Action schemas over a fact    *)
(* store, the planning graph (Level / Graph), the GraphPlan solver with    *)
(* its driver loops, and linearize followed by a replay with PDDL.act.     *)
(*                                                                         *)
(* An Expr is a record [op, args].  op is a sequence of one-character      *)
(* strings, so that the string operations of the source ('Not' + op,       *)
(* op[:3], op[3:], 'P' + op, op[0], op[1].isupper()) are computed as the   *)
(* source computes them.  A term (object constant or schema variable) is   *)
(* a string.                                                               *)
(***************************************************************************)
EXTENDS Integers, Sequences, FiniteSets, TLC

(***************************************************************************)
(* Bounds of the model.                                                    *)
(***************************************************************************)
\* number of iteration orders tried for each Python set whose order the
\* source depends on (the objects of a Graph, the actions of one layer)
MaxSeed == 2
\* cap on the number of levels of a graph
MaxLevels == 5
\* cap on the number of act calls in the fact-store specification
MaxCalls == 3
\* cap on the number of levels of a graph that extract_solution is called on
MaxDepth == 3
\* cap on the number of calls of extract_solution on one graph
MaxExtracts == 2
MaxNodes == 3

(***************************************************************************)
(* Strings and small helpers.                                              *)
(***************************************************************************)
Min2(a, b) == IF a < b THEN a ELSE b

MaxOf(S) == CHOOSE m \in S : \A n \in S : n <= m

\* s[:n]
Take(s, n) == SubSeq(s, 1, Min2(n, Len(s)))

\* s[n:]
Drop(s, n) == SubSeq(s, Min2(n, Len(s)) + 1, Len(s))

Not == <<"N", "o", "t">>

UpperChars ==
    {"A", "B", "C", "D", "E", "F", "G", "H", "I", "J", "K", "L", "M",
     "N", "O", "P", "Q", "R", "S", "T", "U", "V", "W", "X", "Y", "Z"}

\* str.isupper() of one character
isupper(c) == c \in UpperChars

\* the symbols of the modelled problems that are written in lower case:
\* str.islower() of a term
islower(sym) == sym \in {"obj", "loc", "t", "b", "x", "y"}

RECURSIVE SeqOfSet(_)
\* one fixed enumeration of a finite set
SeqOfSet(S) ==
    IF S = {} THEN <<>>
    ELSE LET e == CHOOSE e \in S : TRUE IN <<e>> \o SeqOfSet(S \ {e})

Reverse(s) == [i \in 1..Len(s) |-> s[Len(s) + 1 - i]]

Rotate(s, k) ==
    IF Len(s) = 0 THEN s
    ELSE [i \in 1..Len(s) |-> s[((i - 1 + k) % Len(s)) + 1]]

\* The iteration order of a Python set is not specified.  Seed 0 is one
\* enumeration, seed 1 its reverse, seed k > 1 a rotation of it.
IterOrder(S, seed) ==
    IF seed = 0 THEN SeqOfSet(S)
    ELSE IF seed = 1 THEN Reverse(SeqOfSet(S))
    ELSE Rotate(SeqOfSet(S), seed - 1)

RECURSIVE Flatten(_)
\* concatenation of a sequence of sequences
Flatten(ss) == IF ss = <<>> THEN <<>> ELSE Head(ss) \o Flatten(Tail(ss))

Range(s) == {s[i] : i \in DOMAIN s}

(***************************************************************************)
(* Expr and the predicate / action names of the modelled problems.         *)
(***************************************************************************)
Expr(op, args) == [op |-> op, args |-> args]

nAt == <<"A", "t">>
nTire == <<"T", "i", "r", "e">>
nRemove == <<"R", "e", "m", "o", "v", "e">>
nPutOn == <<"P", "u", "t", "O", "n">>
nLeaveOvernight == <<"L", "e", "a", "v", "e", "O", "v", "e", "r", "n", "i", "g", "h", "t">>
nHave == <<"H", "a", "v", "e">>
nEaten == <<"E", "a", "t", "e", "n">>
nEat == <<"E", "a", "t">>
nBake == <<"B", "a", "k", "e">>
nOn == <<"O", "n">>
nClear == <<"C", "l", "e", "a", "r">>
nBlock == <<"B", "l", "o", "c", "k">>
nMove == <<"M", "o", "v", "e">>
nMoveToTable == <<"M", "o", "v", "e", "T", "o", "T", "a", "b", "l", "e">>
nRightShoeOn == <<"R", "i", "g", "h", "t", "S", "h", "o", "e", "O", "n">>
nRightSockOn == <<"R", "i", "g", "h", "t", "S", "o", "c", "k", "O", "n">>
nLeftShoeOn == <<"L", "e", "f", "t", "S", "h", "o", "e", "O", "n">>
nLeftSockOn == <<"L", "e", "f", "t", "S", "o", "c", "k", "O", "n">>
nRightShoe == <<"R", "i", "g", "h", "t", "S", "h", "o", "e">>
nRightSock == <<"R", "i", "g", "h", "t", "S", "o", "c", "k">>
nLeftShoe == <<"L", "e", "f", "t", "S", "h", "o", "e">>
nLeftSock == <<"L", "e", "f", "t", "S", "o", "c", "k">>
nFly == <<"F", "l", "y">>
nPage == <<"P", "a", "g", "e">>
nNoted == <<"N", "o", "t", "e", "d">>
nMark == <<"M", "a", "r", "k">>
nUnmark == <<"U", "n", "m", "a", "r", "k">>
nNest == <<"N", "e", "s", "t">>
nEgg == <<"E", "g", "g">>
nChicken == <<"C", "h", "i", "c", "k", "e", "n">>
nLay == <<"L", "a", "y">>
nHatch == <<"H", "a", "t", "c", "h">>
nFeather == <<"F", "e", "a", "t", "h", "e", "r">>
nDown == <<"D", "o", "w", "n">>
nPluck == <<"P", "l", "u", "c", "k">>
nHungry == <<"H", "u", "n", "g", "r", "y">>
nFed == <<"F", "e", "d">>
nClean == <<"C", "l", "e", "a", "n">>
nMeal == <<"M", "e", "a", "l">>
nDishes == <<"D", "i", "s", "h", "e", "s">>
nCook == <<"C", "o", "o", "k">>
nWash == <<"W", "a", "s", "h">>
nAddEngine1 == <<"A", "d", "d", "E", "n", "g", "i", "n", "e", "1">>
nAddEngine2 == <<"A", "d", "d", "E", "n", "g", "i", "n", "e", "2">>
nAddWheels1 == <<"A", "d", "d", "W", "h", "e", "e", "l", "s", "1">>
nAddWheels2 == <<"A", "d", "d", "W", "h", "e", "e", "l", "s", "2">>
nInspect1 == <<"I", "n", "s", "p", "e", "c", "t", "1">>
nInspect2 == <<"I", "n", "s", "p", "e", "c", "t", "2">>
nInspected == <<"I", "n", "s", "p", "e", "c", "t", "e", "d">>
nWheels == <<"W", "h", "e", "e", "l", "s">>
nEngine == <<"E", "n", "g", "i", "n", "e">>
nCar == <<"C", "a", "r">>
nHas == <<"H", "a", "s">>
nAmplified == <<"A", "m", "p", "l", "i", "f", "i", "e", "d">>
nSample == <<"S", "a", "m", "p", "l", "e">>
nPCR == <<"P", "C", "R">>
nUnlock == <<"U", "n", "l", "o", "c", "k">>
nLocked == <<"L", "o", "c", "k", "e", "d">>
nOpen == <<"O", "p", "e", "n">>
nKey == <<"K", "e", "y">>
nMakeCoffee == <<"M", "a", "k", "e", "C", "o", "f", "f", "e", "e">>
nMakeTea == <<"M", "a", "k", "e", "T", "e", "a">>
nCoffee == <<"C", "o", "f", "f", "e", "e">>
nBread == <<"B", "r", "e", "a", "d">>
nBoil == <<"B", "o", "i", "l">>
nTea == <<"T", "e", "a">>
nHot == <<"H", "o", "t">>
nBuy == <<"B", "u", "y">>

\* a clause as written in a problem definition: Pos is P(args), Neg is ~P(args)
Pos(op, args) == [neg |-> FALSE, op |-> op, args |-> args]

Neg(op, args) == [neg |-> TRUE, op |-> op, args |-> args]

(***************************************************************************)
(* The fact store (FolKB).  Its code is not part of the modelled source;   *)
(* it is modelled as the specification describes it: a set of ground       *)
(* literals with add, remove and a membership query.                       *)
(***************************************************************************)
FolKB(initial_clauses) == Range(initial_clauses)

tell(kb, sentence) == kb \cup {sentence}

retract(kb, sentence) == kb \ {sentence}

\* kb.ask(query) is not False, for a ground query
ask(kb, query) == query \in kb

(***************************************************************************)
(* Action                                                                  *)
(***************************************************************************)
\* Action.convert: '~P(..)' becomes the literal 'NotP(..)'
convert(clauses) ==
    [i \in 1..Len(clauses) |->
        IF clauses[i].neg THEN Expr(Not \o clauses[i].op, clauses[i].args)
        ELSE Expr(clauses[i].op, clauses[i].args)]

\* Action.__init__
Action(name, args, precond, effect) ==
    [name |-> name, args |-> args,
     precond |-> convert(precond), effect |-> convert(effect)]

\* Action.substitute: every argument of e that equals a formal parameter
\* self.args[i] is replaced by args[i] (the last such i wins)
substitute(self, e, args) ==
    Expr(e.op,
         [num \in 1..Len(e.args) |->
            LET I == {i \in 1..Len(self.args) : self.args[i] = e.args[num]}
            IN IF I = {} THEN e.args[num] ELSE args[MaxOf(I)]])

\* Action.check_precond
check_precond(self, kb, args) ==
    \A i \in 1..Len(self.precond) : substitute(self, self.precond[i], args) \in kb

\* the complement that Action.act looks up for one effect clause
complement(clause) ==
    IF Take(clause.op, 3) = Not THEN Expr(Drop(clause.op, 3), clause.args)
    ELSE Expr(Not \o clause.op, clause.args)

RECURSIVE apply_effects(_, _, _, _)
\* a slip: the loop stops after one effect
apply_effects_first(self, kb, args, i) ==
    IF i > Len(self.effect) THEN kb
    ELSE LET clause == self.effect[i]
             kb1 == tell(kb, substitute(self, clause, args))
             new_clause == substitute(self, Expr(Not \o clause.op, clause.args), args)
         IN IF ask(kb1, new_clause) THEN retract(kb1, new_clause) ELSE kb1

\* the loop of Action.act over self.effect, from effect number i on
apply_effects(self, kb, args, i) ==
    IF i > Len(self.effect) THEN kb
    ELSE LET clause == self.effect[i]
             kb1 == tell(kb, substitute(self, clause, args))
             new_clause == substitute(self, complement(clause), args)
             kb2 == IF ask(kb1, new_clause) THEN retract(kb1, new_clause) ELSE kb1
         IN apply_effects(self, kb2, args, i + 1)

\* a slip: the effects are applied before the preconditions are checked
Action_act_unchecked(self, kb, args) ==
    [raised |-> IF check_precond(self, kb, args) THEN "none" ELSE "precond",
     kb |-> apply_effects(self, kb, args, 1)]

\* Action.act: [raised, kb] where raised is "none" when the call returns
Action_act(self, kb, args) ==
    IF ~check_precond(self, kb, args)
    THEN [raised |-> "precond", kb |-> kb]
    ELSE [raised |-> "none", kb |-> apply_effects(self, kb, args, 1)]

(***************************************************************************)
(* PDDL                                                                    *)
(***************************************************************************)
\* PDDL.convert: the conjuncts of the expression; a '~' is not rewritten
PDDL_convert(clauses) ==
    [i \in 1..Len(clauses) |->
        IF clauses[i].neg THEN Expr(<<"~">> \o clauses[i].op, clauses[i].args)
        ELSE Expr(clauses[i].op, clauses[i].args)]

\* PDDL.__init__
PDDL(init, goals, actions) ==
    [init |-> PDDL_convert(init), goals |-> PDDL_convert(goals), actions |-> actions]

\* PDDL.goal_test on the current facts
PDDL_goal_test(facts, goals) == \A i \in 1..Len(goals) : goals[i] \in facts

\* PDDL.act: [raised, init] for the current facts init
PDDL_act(actions, init, action) ==
    LET found == {i \in 1..Len(actions) : actions[i].name = action.op}
    IN IF found = {} THEN [raised |-> "not_found", init |-> init]
       ELSE LET list_action == actions[CHOOSE i \in found : \A j \in found : i <= j]
            IN IF ~check_precond(list_action, init, action.args)
               THEN [raised |-> "precond", init |-> init]
               ELSE LET r == Action_act(list_action, init, action.args)
                    IN [raised |-> r.raised, init |-> r.kb]

(***************************************************************************)
(* The problems.                                                           *)
(***************************************************************************)
spare_tire ==
    PDDL(<<Pos(nTire, <<"Flat">>), Pos(nTire, <<"Spare">>),
           Pos(nAt, <<"Flat", "Axle">>), Pos(nAt, <<"Spare", "Trunk">>)>>,
         <<Pos(nAt, <<"Spare", "Axle">>), Pos(nAt, <<"Flat", "Ground">>)>>,
         <<Action(nRemove, <<"obj", "loc">>,
                  <<Pos(nAt, <<"obj", "loc">>)>>,
                  <<Pos(nAt, <<"obj", "Ground">>), Neg(nAt, <<"obj", "loc">>)>>),
           Action(nPutOn, <<"t", "Axle">>,
                  <<Pos(nTire, <<"t">>), Pos(nAt, <<"t", "Ground">>),
                    Neg(nAt, <<"Flat", "Axle">>)>>,
                  <<Pos(nAt, <<"t", "Axle">>), Neg(nAt, <<"t", "Ground">>)>>),
           Action(nLeaveOvernight, <<>>, <<>>,
                  <<Neg(nAt, <<"Spare", "Ground">>), Neg(nAt, <<"Spare", "Axle">>),
                    Neg(nAt, <<"Spare", "Trunk">>), Neg(nAt, <<"Flat", "Ground">>),
                    Neg(nAt, <<"Flat", "Axle">>), Neg(nAt, <<"Flat", "Trunk">>)>>)>>)

three_block_tower ==
    PDDL(<<Pos(nOn, <<"A", "Table">>), Pos(nOn, <<"B", "Table">>),
           Pos(nOn, <<"C", "A">>), Pos(nBlock, <<"A">>), Pos(nBlock, <<"B">>),
           Pos(nBlock, <<"C">>), Pos(nClear, <<"B">>), Pos(nClear, <<"C">>)>>,
         <<Pos(nOn, <<"A", "B">>), Pos(nOn, <<"B", "C">>)>>,
         <<Action(nMove, <<"b", "x", "y">>,
                  <<Pos(nOn, <<"b", "x">>), Pos(nClear, <<"b">>), Pos(nClear, <<"y">>),
                    Pos(nBlock, <<"b">>), Pos(nBlock, <<"y">>)>>,
                  <<Pos(nOn, <<"b", "y">>), Pos(nClear, <<"x">>),
                    Neg(nOn, <<"b", "x">>), Neg(nClear, <<"y">>)>>),
           Action(nMoveToTable, <<"b", "x">>,
                  <<Pos(nOn, <<"b", "x">>), Pos(nClear, <<"b">>), Pos(nBlock, <<"b">>)>>,
                  <<Pos(nOn, <<"b", "Table">>), Pos(nClear, <<"x">>),
                    Neg(nOn, <<"b", "x">>)>>)>>)

cake_actions ==
    <<Action(nEat, <<"Cake">>,
             <<Pos(nHave, <<"Cake">>)>>,
             <<Pos(nEaten, <<"Cake">>), Neg(nHave, <<"Cake">>)>>),
      Action(nBake, <<"Cake">>,
             <<Neg(nHave, <<"Cake">>)>>,
             <<Pos(nHave, <<"Cake">>)>>)>>

have_cake_and_eat_cake_too ==
    PDDL(<<Pos(nHave, <<"Cake">>)>>,
         <<Pos(nHave, <<"Cake">>), Pos(nEaten, <<"Cake">>)>>,
         cake_actions)

socks_and_shoes ==
    PDDL(<<>>,
         <<Pos(nRightShoeOn, <<>>), Pos(nLeftShoeOn, <<>>)>>,
         <<Action(nRightShoe, <<>>, <<Pos(nRightSockOn, <<>>)>>, <<Pos(nRightShoeOn, <<>>)>>),
           Action(nRightSock, <<>>, <<>>, <<Pos(nRightSockOn, <<>>)>>),
           Action(nLeftShoe, <<>>, <<Pos(nLeftSockOn, <<>>)>>, <<Pos(nLeftShoeOn, <<>>)>>),
           Action(nLeftSock, <<>>, <<>>, <<Pos(nLeftSockOn, <<>>)>>)>>)

\* the cake problem's schemas with a goal that the initial facts satisfy
cake_kept ==
    PDDL(<<Pos(nHave, <<"Cake">>)>>,
         <<Pos(nHave, <<"Cake">>)>>,
         cake_actions)

\* a problem with a predicate, Noted, whose name begins with the letters
\* of 'Not': init 'Page(A)', Mark(x) with effect 'Noted(x)' and Unmark(x)
\* with effect '~Noted(x)'
noted_pages ==
    PDDL(<<Pos(nPage, <<"A">>)>>,
         <<Pos(nNoted, <<"A">>)>>,
         <<Action(nMark, <<"x">>, <<>>, <<Pos(nNoted, <<"x">>)>>),
           Action(nUnmark, <<"x">>, <<>>, <<Neg(nNoted, <<"x">>)>>)>>)

\* a problem whose goal needs its own consequence: init 'Nest(A)', goal
\* 'Egg(A)', Lay(x) with precondition 'Chicken(x)' and effect 'Egg(x)',
\* Hatch(x) with precondition 'Egg(x)' and effect 'Chicken(x)'
chicken_and_egg ==
    PDDL(<<Pos(nNest, <<"A">>)>>,
         <<Pos(nEgg, <<"A">>)>>,
         <<Action(nLay, <<"x">>, <<Pos(nChicken, <<"x">>)>>, <<Pos(nEgg, <<"x">>)>>),
           Action(nHatch, <<"x">>, <<Pos(nEgg, <<"x">>)>>, <<Pos(nChicken, <<"x">>)>>)>>)

\* a problem in which an open precondition has an achiever in the initial
\* state and one that needs its own consequence: init 'Chicken(A)', goal
\* 'Down(A)', Lay(x) with precondition 'Chicken(x)' and effect 'Egg(x)',
\* Hatch(x) with precondition 'Egg(x)' and effect 'Chicken(x) & Feather(x)',
\* Pluck(x) with precondition 'Feather(x)' and effect 'Down(x)'
hen_and_down ==
    PDDL(<<Pos(nChicken, <<"A">>)>>,
         <<Pos(nDown, <<"A">>)>>,
         <<Action(nLay, <<"x">>, <<Pos(nChicken, <<"x">>)>>, <<Pos(nEgg, <<"x">>)>>),
           Action(nHatch, <<"x">>, <<Pos(nEgg, <<"x">>)>>,
                  <<Pos(nChicken, <<"x">>), Pos(nFeather, <<"x">>)>>),
           Action(nPluck, <<"x">>, <<Pos(nFeather, <<"x">>)>>, <<Pos(nDown, <<"x">>)>>)>>)

\* a problem with threats: init 'Hungry(A)', goals 'Fed(A) & Clean(A)',
\* Cook(x) with effect 'Meal(x) & Dishes(x)', Eat(x) with precondition
\* 'Meal(x)' and effect 'Fed(x) & ~Clean(x)', Wash(x) with precondition
\* 'Dishes(x)' and effect 'Clean(x) & ~Meal(x)'
dinner ==
    PDDL(<<Pos(nHungry, <<"A">>)>>,
         <<Pos(nFed, <<"A">>), Pos(nClean, <<"A">>)>>,
         <<Action(nCook, <<"x">>, <<>>,
                  <<Pos(nMeal, <<"x">>), Pos(nDishes, <<"x">>)>>),
           Action(nEat, <<"x">>, <<Pos(nMeal, <<"x">>)>>,
                  <<Pos(nFed, <<"x">>), Neg(nClean, <<"x">>)>>),
           Action(nWash, <<"x">>, <<Pos(nDishes, <<"x">>)>>,
                  <<Pos(nClean, <<"x">>), Neg(nMeal, <<"x">>)>>)>>)

\* the same with an Eat(x) that leaves 'Clean(x)' alone
snack ==
    PDDL(<<Pos(nHungry, <<"A">>)>>,
         <<Pos(nFed, <<"A">>), Pos(nClean, <<"A">>)>>,
         <<Action(nCook, <<"x">>, <<>>,
                  <<Pos(nMeal, <<"x">>), Pos(nDishes, <<"x">>)>>),
           Action(nEat, <<"x">>, <<Pos(nMeal, <<"x">>)>>, <<Pos(nFed, <<"x">>)>>),
           Action(nWash, <<"x">>, <<Pos(nDishes, <<"x">>)>>,
                  <<Pos(nClean, <<"x">>), Neg(nMeal, <<"x">>)>>)>>)

\* a problem with a schema whose name is a 'P' and an upper-case letter:
\* init 'Sample(A)', goal 'Amplified(A)', PCR(x) with precondition
\* 'Sample(x)' and effect 'Amplified(x)'
amplify ==
    PDDL(<<Pos(nSample, <<"A">>)>>,
         <<Pos(nAmplified, <<"A">>)>>,
         <<Action(nPCR, <<"x">>, <<Pos(nSample, <<"x">>)>>, <<Pos(nAmplified, <<"x">>)>>)>>)

\* a problem with a schema that names a constant among its parameters, as
\* PutOn(t, Axle) does: init 'Key(K) & Locked(Gate)', goal 'Open(Door)',
\* Unlock(k, Door) with precondition 'Key(k) & Locked(Door)' and effect
\* 'Open(Door)'
locked_gate ==
    PDDL(<<Pos(nKey, <<"K">>), Pos(nLocked, <<"Gate">>)>>,
         <<Pos(nOpen, <<"Door">>)>>,
         <<Action(nUnlock, <<"k", "Door">>,
                  <<Pos(nKey, <<"k">>), Pos(nLocked, <<"Door">>)>>,
                  <<Pos(nOpen, <<"Door">>)>>)>>)

\* a problem with a literal that two actions need: init 'Hungry(A)', goals
\* 'Tea(A) & Coffee(A) & Bread(A)', MakeTea(x) and MakeCoffee(x) with
\* precondition 'Hot(x)', Boil(x) with effect 'Hot(x)', Bake(x) and Buy(x)
\* with effect 'Bread(x)'
breakfast ==
    PDDL(<<Pos(nHungry, <<"A">>)>>,
         <<Pos(nTea, <<"A">>), Pos(nCoffee, <<"A">>), Pos(nBread, <<"A">>)>>,
         <<Action(nMakeTea, <<"x">>, <<Pos(nHot, <<"x">>)>>, <<Pos(nTea, <<"x">>)>>),
           Action(nMakeCoffee, <<"x">>, <<Pos(nHot, <<"x">>)>>, <<Pos(nCoffee, <<"x">>)>>),
           Action(nBoil, <<"x">>, <<>>, <<Pos(nHot, <<"x">>)>>),
           Action(nBake, <<"x">>, <<>>, <<Pos(nBread, <<"x">>)>>),
           Action(nBuy, <<"x">>, <<>>, <<Pos(nBread, <<"x">>)>>)>>)

\* the problems given to the GraphPlan drivers
ProblemNames ==
    {"spare_tire", "three_block_tower", "have_cake_and_eat_cake_too",
     "socks_and_shoes", "cake_kept", "amplify", "locked_gate"}

\* the problems whose facts the calls of act are applied to
ActProblems == ProblemNames \cup {"noted_pages"}

Problem(name) ==
    CASE name = "spare_tire" -> spare_tire
      [] name = "three_block_tower" -> three_block_tower
      [] name = "amplify" -> amplify
      [] name = "locked_gate" -> locked_gate
      [] name = "have_cake_and_eat_cake_too" -> have_cake_and_eat_cake_too
      [] name = "socks_and_shoes" -> socks_and_shoes
      [] name = "cake_kept" -> cake_kept
      [] name = "noted_pages" -> noted_pages
      [] name = "chicken_and_egg" -> chicken_and_egg
      [] name = "hen_and_down" -> hen_and_down
      [] name = "dinner" -> dinner
      [] name = "snack" -> snack
      [] name = "breakfast" -> breakfast

(***************************************************************************)
(* Level                                                                   *)
(***************************************************************************)
NoLinks == [k \in {} |-> <<>>]

\* Level.__init__
Level(kb) ==
    [current_state |-> kb,
     current_action_links |-> NoLinks, current_state_links |-> NoLinks,
     next_action_links |-> NoLinks, next_state_links |-> NoLinks,
     mutex |-> {}]

RECURSIVE permutations(_, _)
\* itertools.permutations(objects, r) for the iteration order objects
permutations(objects, r) ==
    IF r = 0 THEN << <<>> >>
    ELSE Flatten([i \in 1..Len(objects) |->
            LET rest == [j \in 1..(Len(objects) - 1) |->
                            IF j < i THEN objects[j] ELSE objects[j + 1]]
                sub == permutations(rest, r - 1)
            IN [k \in 1..Len(sub) |-> <<objects[i]>> \o sub[k]]])

\* the persistence action of a literal
p_expr(clause) == Expr(<<"P">> \o clause.op, clause.args)

\* Level.build: an argument position whose formal parameter is not a
\* lower-case symbol is pinned to that parameter
pin(a, arg) ==
    [num \in 1..Len(arg) |-> IF ~islower(a.args[num]) THEN a.args[num] ELSE arg[num]]

\* Level.build: the ground actions registered for schema a, in order
registered(current_state, a, objects) ==
    LET possible_args == permutations(objects, Len(a.args))
    IN Flatten([n \in 1..Len(possible_args) |->
          IF check_precond(a, current_state, possible_args[n])
          THEN LET arg == pin(a, possible_args[n])
               IN << [act |-> substitute(a, Expr(a.name, a.args), arg),
                      pre |-> [i \in 1..Len(a.precond) |-> substitute(a, a.precond[i], arg)],
                      eff |-> [i \in 1..Len(a.effect) |-> substitute(a, a.effect[i], arg)]] >>
          ELSE <<>>])

\* the actions appended to the list of literal lit, one per occurrence of
\* lit among the clauses (side "pre" or "eff") of each registered action
linked(regs, lit, side) ==
    Flatten([n \in 1..Len(regs) |->
        Flatten([i \in 1..Len(regs[n][side]) |->
            IF regs[n][side][i] = lit THEN <<regs[n].act>> ELSE <<>>])])

\* a slip: no persistence action is created
persisted_none(current_state) == {}

\* Level.build: the clauses that get a persistence action
persisted(current_state) == current_state

\* the persistence action of Level.build at the start of the list of lit
persistence(current_state, lit) ==
    IF lit \in persisted(current_state) THEN <<p_expr(lit)>> ELSE <<>>

\* Level.build
build(level, actions, objects) ==
    LET cs == level.current_state
        regs == Flatten([n \in 1..Len(actions) |-> registered(cs, actions[n], objects)])
        acts == {regs[n].act : n \in 1..Len(regs)}
        last(act) == regs[MaxOf({n \in 1..Len(regs) : regs[n].act = act})]
        pres == UNION {Range(regs[n].pre) : n \in 1..Len(regs)}
        effs == UNION {Range(regs[n].eff) : n \in 1..Len(regs)}
        kept == persisted(cs)
        lit_of(k) == CHOOSE c \in kept : p_expr(c) = k
    IN [current_state |-> cs,
        current_action_links |->
            [k \in {p_expr(c) : c \in kept} \cup acts |->
                IF k \in acts THEN last(k).pre ELSE <<lit_of(k)>>],
        next_action_links |->
            [k \in {p_expr(c) : c \in kept} \cup acts |->
                IF k \in acts THEN last(k).eff ELSE <<lit_of(k)>>],
        current_state_links |->
            [lit \in kept \cup pres |-> persistence(cs, lit) \o linked(regs, lit, "pre")],
        next_state_links |->
            [lit \in kept \cup effs |-> persistence(cs, lit) \o linked(regs, lit, "eff")],
        mutex |-> level.mutex]

\* Level.separate on the keys e: [positive, negative]
separate(e) ==
    [positive |-> {clause \in e : Take(clause.op, 3) # Not},
     negative |-> {clause \in e : Take(clause.op, 3) = Not}]

\* the pairs of Level.find_mutex for one link dictionary: {a, b} for a in
\* the list of a positive key and b in the list of its negation
opposed(links) ==
    LET s == separate(DOMAIN links)
    IN UNION {UNION {{{a, b} : a \in Range(links[pos]), b \in Range(links[neg])}
                     : pos \in {q \in s.positive : q = Expr(Drop(neg.op, 3), neg.args)}}
              : neg \in s.negative}

\* Level.find_mutex: inconsistent support, from the action pairs found:
\* a pair whose actions have exactly one effect each gives the pair of
\* those effects
state_mutex(level, pairs) ==
    {{level.next_action_links[a][1] : a \in pair} :
        pair \in {q \in pairs : \A a \in q : Len(level.next_action_links[a]) = 1}}

\* a slip: the competing needs are left out
find_mutex_effects(level) ==
    LET pairs == level.mutex \cup opposed(level.next_state_links)
    IN [level EXCEPT !.mutex = pairs \cup state_mutex(level, pairs)]

\* Level.find_mutex
find_mutex(level) ==
    LET pairs == level.mutex \cup opposed(level.next_state_links)
                             \cup opposed(level.current_state_links)
    IN [level EXCEPT !.mutex = pairs \cup state_mutex(level, pairs)]

\* Level.__call__
Level_call(level, actions, objects) == find_mutex(build(level, actions, objects))

\* a slip: only the literals with an action other than their persistence
\* action are carried to the new level
perform_actions_effects(level) ==
    Level({lit \in DOMAIN level.next_state_links :
             level.next_state_links[lit] # <<p_expr(lit)>>})

\* Level.perform_actions
perform_actions(level) == Level(DOMAIN level.next_state_links)

(***************************************************************************)
(* Graph                                                                   *)
(***************************************************************************)
\* Graph.__init__: the objects are the arguments of the initial facts
Graph_objects(pddl) == UNION {Range(pddl.init[i].args) : i \in 1..Len(pddl.init)}

\* Graph.expand_graph on the list of levels
expand_graph(levels, actions, objects) ==
    LET last_level == Level_call(levels[Len(levels)], actions, objects)
    IN [levels EXCEPT ![Len(levels)] = last_level] \o <<perform_actions(last_level)>>

\* set(g) for g in itertools.combinations(goals, 2)
goal_pairs(goals) ==
    {{goals[p[1]], goals[p[2]]} :
        p \in {q \in (1..Len(goals)) \X (1..Len(goals)) : q[1] < q[2]}}

\* levels[index] for a Python index
at(levels, index) ==
    IF index < 0 THEN levels[Len(levels) + index + 1] ELSE levels[index + 1]

\* a slip: the membership test is inverted
non_mutex_goals_inverted(levels, goals, index) ==
    \A g \in goal_pairs(goals) : g \in at(levels, index).mutex

\* Graph.non_mutex_goals
non_mutex_goals(levels, goals, index) ==
    \A g \in goal_pairs(goals) : g \notin at(levels, index).mutex

(***************************************************************************)
(* GraphPlan                                                               *)
(***************************************************************************)
\* GraphPlan.check_leveloff
check_leveloff(levels) ==
    at(levels, -1).current_state = at(levels, -2).current_state

RECURSIVE product(_)
\* itertools.product(*actions), in its order
product(actions) ==
    IF actions = <<>> THEN << <<>> >>
    ELSE LET sub == product(Tail(actions))
         IN Flatten([i \in 1..Len(Head(actions)) |->
                [k \in 1..Len(sub) |-> <<Head(actions)[i]>> \o sub[k]]])

\* extract_solution: the action tuples without a mutex pair, each as the
\* set of its actions, in the order of the product
non_mutex_actions(level, all_actions) ==
    Flatten([n \in 1..Len(all_actions) |->
        LET action_set == Range(all_actions[n])
        IN IF \E a, b \in action_set : a # b /\ {a, b} \in level.mutex
           THEN <<>> ELSE <<action_set>>])

\* extract_solution: the preconditions of the chosen actions, for the
\* iteration order of set(action_list) given by seed
new_goals(level, action_list, seed) ==
    LET order == IterOrder(action_list, seed)
    IN Flatten([i \in 1..Len(order) |->
          IF order[i] \in DOMAIN level.current_action_links
          THEN level.current_action_links[order[i]] ELSE <<>>])

RECURSIVE regroup(_, _, _)
\* extract_solution: the entries of self.solution from number i on,
\* regrouped; an entry of index -1 opens a group
regroup(solution, i, acc) ==
    IF i > Len(solution) THEN [raised |-> "none", value |-> acc]
    ELSE IF solution[i].index = -1
         THEN regroup(solution, i + 1, Append(acc, <<solution[i].action_list>>))
         ELSE IF acc = <<>> THEN [raised |-> "IndexError", value |-> acc]
         ELSE regroup(solution, i + 1,
                      [acc EXCEPT ![Len(acc)] = Append(@, solution[i].action_list)])

\* a slip: the groups are not reversed
level_order_unreversed(solution) ==
    LET g == regroup(solution, 1, <<>>)
    IN [raised |-> g.raised, value |-> g.value]

\* extract_solution: the level-ordered solutions, each reversed
level_order(solution) ==
    LET g == regroup(solution, 1, <<>>)
    IN [raised |-> g.raised, value |-> [n \in 1..Len(g.value) |-> Reverse(g.value[n])]]

\* the number, from 1, of the level levels[index] for a Python index
level_number(levels, index) ==
    IF index < 0 THEN Len(levels) + index + 1 ELSE index + 1

\* a slip: the branch is left without recording the nogood
mutex_goals_unrecorded(levels, goals, index, solution, nogoods) ==
    [solution |-> solution, nogoods |-> nogoods, ret |-> "None", value |-> <<>>]

\* extract_solution when the goals are mutex at the level: the nogood
\* (level, goals) is recorded and the call returns
mutex_goals(levels, goals, index, solution, nogoods) ==
    [solution |-> solution,
     nogoods |-> nogoods \cup {<<level_number(levels, index), goals>>},
     ret |-> "None", value |-> <<>>]

RECURSIVE extract_solution(_, _, _, _, _, _)
RECURSIVE recursion(_, _, _, _, _, _, _, _)
\* GraphPlan.extract_solution.  The result is [solution, nogoods, ret, value]:
\* self.solution and self.nogoods after the call, ret "None" or "list" for
\* the returned value, or the name of the exception raised.
extract_solution(levels, goals, index, solution, nogoods, seed) ==
    IF ~non_mutex_goals(levels, goals, index)
    THEN mutex_goals(levels, goals, index, solution, nogoods)
    ELSE IF Len(levels) + index < 1
    THEN [solution |-> solution, nogoods |-> nogoods, ret |-> "IndexError", value |-> <<>>]
    ELSE LET level == at(levels, index - 1)
         IN IF \E i \in 1..Len(goals) : goals[i] \notin DOMAIN level.next_state_links
            THEN [solution |-> solution, nogoods |-> nogoods, ret |-> "KeyError", value |-> <<>>]
            ELSE LET actions == [i \in 1..Len(goals) |-> level.next_state_links[goals[i]]]
                     nma == non_mutex_actions(level, product(actions))
                     r == recursion(levels, index, nma, 1, solution, nogoods, seed, level)
                 IN IF r.ret # "end"
                    THEN [solution |-> r.solution, nogoods |-> r.nogoods,
                          ret |-> r.ret, value |-> <<>>]
                    ELSE LET lo == level_order(r.solution)
                         IN [solution |-> r.solution, nogoods |-> r.nogoods,
                             ret |-> IF lo.raised = "none" THEN "list" ELSE lo.raised,
                             value |-> lo.value]

\* the loop "for action_list in non_mutex_actions" of extract_solution from
\* element n on; ret "end" when the loop runs to its end
recursion(levels, index, nma, n, solution, nogoods, seed, level) ==
    IF n > Len(nma) THEN [solution |-> solution, nogoods |-> nogoods, ret |-> "end"]
    ELSE LET entry == [action_list |-> nma[n], index |-> index]
         IN IF \E i \in 1..Len(solution) : solution[i] = entry
            THEN recursion(levels, index, nma, n + 1, solution, nogoods, seed, level)
            ELSE LET solution1 == Append(solution, entry)
                     goals1 == new_goals(level, nma[n], seed)
                 IN IF -index + 1 = Len(levels)
                    THEN [solution |-> solution1, nogoods |-> nogoods, ret |-> "None"]
                    ELSE IF <<Len(levels) + index, goals1>> \in nogoods
                    THEN [solution |-> solution1, nogoods |-> nogoods, ret |-> "None"]
                    ELSE LET r == extract_solution(levels, goals1, index - 1,
                                                   solution1, nogoods, seed)
                         IN IF r.ret \in {"None", "list"}
                            THEN recursion(levels, index, nma, n + 1,
                                           r.solution, r.nogoods, seed, level)
                            ELSE [solution |-> r.solution, nogoods |-> r.nogoods,
                                  ret |-> r.ret]

\* linearize: the operations of solution[0] that are not persistence
\* actions, each section in the order of its list
linearize(solution, seed) ==
    LET sections == solution[1]
        keep(operation) == ~(operation.op[1] = "P" /\ isupper(operation.op[2]))
        section(n) == IterOrder(sections[n], seed)
    IN Flatten([n \in 1..Len(sections) |->
          Flatten([i \in 1..Len(section(n)) |->
              IF keep(section(n)[i]) THEN <<section(n)[i]>> ELSE <<>>])])

(***************************************************************************)
(* PartialOrderPlanner.  An Action object is compared by identity: it is   *)
(* a record with a field id, 0 for Start, -1 for Finish and n for the n-th *)
(* element of expanded_actions.  The value of self.constraints is a record *)
(* [kind, pairs]: kind "set" with the set of pairs (a, b), a before b, or  *)
(* kind "None" once protect has returned nothing.                          *)
(***************************************************************************)
\* is_variable of unify, for the symbols of the modelled problems
is_variable(sym) == islower(sym)

\* unify(Expr(name, *x), Expr(name, *y)) for argument lists of one length:
\* [ok, bindings], ok FALSE when unify returns None
unify(x, y) ==
    [ok |-> /\ \A i \in 1..Len(x) : is_variable(x[i]) \/ x[i] = y[i]
            /\ \A i, j \in 1..Len(x) : (is_variable(x[i]) /\ x[i] = x[j]) => y[i] = y[j],
     bindings |-> [v \in {x[i] : i \in {k \in 1..Len(x) : is_variable(x[k])}} |->
                     y[CHOOSE i \in 1..Len(x) : x[i] = v]]]

\* the arguments with the bound ones replaced
bound(args, bindings) ==
    [i \in 1..Len(args) |->
        IF args[i] \in DOMAIN bindings THEN bindings[args[i]] ELSE args[i]]

\* expand_actions: the clauses of a schema under the bindings
bound_clauses(clauses, bindings) ==
    [i \in 1..Len(clauses) |-> Expr(clauses[i].op, bound(clauses[i].args, bindings))]

\* expand_actions without its identities: one ground action for every
\* schema and every permutation of the objects that unifies with its
\* parameters
expansions(pddl, objects) ==
    Flatten([n \in 1..Len(pddl.actions) |->
        LET action == pddl.actions[n]
            perms == permutations(objects, Len(action.args))
        IN Flatten([k \in 1..Len(perms) |->
              LET u == unify(action.args, perms[k])
              IN IF u.ok
                 THEN << [name |-> action.name,
                          args |-> bound(action.args, u.bindings),
                          precond |-> bound_clauses(action.precond, u.bindings),
                          effect |-> bound_clauses(action.effect, u.bindings)] >>
                 ELSE <<>>])])

\* PartialOrderPlanner.expand_actions: the n-th Action object has id n
expand_actions(pddl, objects) ==
    LET e == expansions(pddl, objects)
    IN [n \in 1..Len(e) |->
          [id |-> n, name |-> e[n].name, args |-> e[n].args,
           precond |-> e[n].precond, effect |-> e[n].effect]]

\* initialize: self.start and self.finish
start_action(pddl) ==
    [id |-> 0, name |-> <<"S", "t", "a", "r", "t">>, args |-> <<>>,
     precond |-> <<>>, effect |-> pddl.init]

finish_action(pddl) ==
    [id |-> 0 - 1, name |-> <<"F", "i", "n", "i", "s", "h">>, args |-> <<>>,
     precond |-> pddl.goals, effect |-> <<>>]

\* a value of self.constraints
SetOf(pairs) == [kind |-> "set", pairs |-> pairs]

NoneValue == [kind |-> "None", pairs |-> {}]

RECURSIVE visit(_, _, _)
\* cyclic: visit(vertex) with the vertices of path on the current path
visit(graph, vertex, path) ==
    \E e \in graph :
        /\ e[1] = vertex
        /\ \/ e[2] \in path \cup {vertex}
           \/ visit(graph, e[2], path \cup {vertex})

\* PartialOrderPlanner.cyclic, for a set of pairs
cyclic(graph) == \E vertex \in {e[1] : e \in graph} : visit(graph, vertex, {})

\* the pairs of Action objects as pairs of their identities
identities(pairs) == {<<e[1].id, e[2].id>> : e \in pairs}

\* PartialOrderPlanner.add_const: [raised, value]; set(None) raises TypeError
add_const(pddl, constraint, constraints) ==
    IF constraint[1] = finish_action(pddl) \/ constraint[2] = start_action(pddl)
    THEN [raised |-> "none", value |-> constraints]
    ELSE IF constraints.kind = "None"
    THEN [raised |-> "TypeError", value |-> constraints]
    ELSE IF cyclic(identities(constraints.pairs \cup {constraint}))
    THEN [raised |-> "none", value |-> constraints]
    ELSE [raised |-> "none", value |-> SetOf(constraints.pairs \cup {constraint})]

\* PartialOrderPlanner.is_a_threat
is_a_threat(precondition, effect) ==
    /\ effect.op = Not \o precondition.op \/ Not \o effect.op = precondition.op
    /\ effect.args = precondition.args

\* protect: some effect of the action is a threat to the link's literal
threatens(causal_link, action) ==
    \E i \in 1..Len(action.effect) : is_a_threat(causal_link[2], action.effect[i])

\* a slip: demotion is not tried
protect_promotion(pddl, causal_link, action, constraints) ==
    IF action # causal_link[1] /\ action # causal_link[3] /\ threatens(causal_link, action)
    THEN IF constraints.kind = "None"
         THEN [raised |-> "TypeError", value |-> constraints, printed |-> FALSE]
         ELSE IF ~cyclic(identities(constraints.pairs \cup {<<action, causal_link[1]>>}))
         THEN [raised |-> "none",
               value |-> add_const(pddl, <<action, causal_link[1]>>, constraints).value,
               printed |-> FALSE]
         ELSE [raised |-> "none", value |-> NoneValue, printed |-> TRUE]
    ELSE [raised |-> "none", value |-> constraints, printed |-> FALSE]

\* PartialOrderPlanner.protect: [raised, value, printed], printed when the
\* message of the unresolved threat is printed
protect(pddl, causal_link, action, constraints) ==
    IF action # causal_link[1] /\ action # causal_link[3] /\ threatens(causal_link, action)
    THEN IF constraints.kind = "None"
         THEN [raised |-> "TypeError", value |-> constraints, printed |-> FALSE]
         ELSE IF ~cyclic(identities(constraints.pairs \cup {<<action, causal_link[1]>>}))
         THEN [raised |-> "none",
               value |-> add_const(pddl, <<action, causal_link[1]>>, constraints).value,
               printed |-> FALSE]
         ELSE IF ~cyclic(identities(constraints.pairs \cup {<<causal_link[3], action>>}))
         THEN [raised |-> "none",
               value |-> add_const(pddl, <<causal_link[3], action>>, constraints).value,
               printed |-> FALSE]
         ELSE [raised |-> "none", value |-> NoneValue, printed |-> TRUE]
    ELSE [raised |-> "none", value |-> constraints, printed |-> FALSE]

\* find_open_precondition: the number of (action, effect) pairs of
\* possible_actions whose effect is the literal
matches(possible_actions, literal) ==
    Flatten([i \in 1..Len(possible_actions) |->
        Flatten([j \in 1..Len(possible_actions[i].effect) |->
            IF possible_actions[i].effect[j] = literal
            THEN <<possible_actions[i]>> ELSE <<>>])])

\* find_open_precondition: number_of_ways of a literal after the loop over
\* the agenda, every element of the agenda with that literal adding its
\* matches
number_of_ways(agenda_list, possible_actions, literal) ==
    Len(matches(possible_actions, literal)) *
        Cardinality({i \in 1..Len(agenda_list) : agenda_list[i][1] = literal})

\* find_open_precondition: the keys of number_of_ways in insertion order,
\* as positions of the agenda list
inserted(agenda_list, possible_actions) ==
    {i \in 1..Len(agenda_list) :
        /\ matches(possible_actions, agenda_list[i][1]) # <<>>
        /\ \A j \in 1..(i - 1) : agenda_list[j][1] # agenda_list[i][1]}

\* PartialOrderPlanner.find_open_precondition for the iteration orders of
\* the agenda and of possible_actions: [raised, G, act1, act0], raised
\* "IndexError" when number is empty and "TypeError" when execute
\* subscripts the None that is returned for a count of 0
find_open_precondition(agenda_list, possible_actions) ==
    LET keys == inserted(agenda_list, possible_actions)
        ways(i) == number_of_ways(agenda_list, possible_actions, agenda_list[i][1])
    IN IF keys = {}
       THEN [raised |-> "IndexError"]
       ELSE IF \E i \in keys : ways(i) = 0
       THEN [raised |-> "TypeError"]
       ELSE LET first == CHOOSE i \in keys :
                            \A j \in keys : ways(i) < ways(j) \/ (ways(i) = ways(j) /\ i <= j)
                G == agenda_list[first][1]
            IN [raised |-> "none", G |-> G, act1 |-> agenda_list[first][2],
                act0 |-> matches(possible_actions, G)[1]]

RECURSIVE protect_each(_, _, _, _, _, _)
\* the loops of execute that assign self.constraints = self.protect(...):
\* todo is the list of the (causal_link, action) of the calls, from call
\* number i on; calls collects what every call was given and returned
protect_each(pddl, todo, i, constraints, printed, calls) ==
    IF i > Len(todo)
    THEN [raised |-> "none", value |-> constraints, printed |-> printed, calls |-> calls]
    ELSE LET r == protect(pddl, todo[i][1], todo[i][2], constraints)
             call == [op |-> "protect", link |-> todo[i][1], action |-> todo[i][2],
                      before |-> constraints, after |-> r.value, raised |-> r.raised,
                      printed |-> r.printed]
         IN IF r.raised # "none"
            THEN [raised |-> r.raised, value |-> constraints, printed |-> printed,
                  calls |-> Append(calls, call)]
            ELSE protect_each(pddl, todo, i + 1, r.value, printed \/ r.printed,
                              Append(calls, call))

\* a slip: the selected entry stays on the agenda
agenda_after_kept(agenda, G, act1, act0, completed) ==
    agenda \cup (IF completed
                 THEN {<<act0.precond[i], act0>> : i \in 1..Len(act0.precond)} ELSE {})

\* execute: the agenda after (G, act1) is removed and, when the iteration
\* gets that far, the preconditions of act0 are added
agenda_after(agenda, G, act1, act0, completed) ==
    (agenda \ {<<G, act1>>}) \cup
        (IF completed
         THEN {<<act0.precond[i], act0>> : i \in 1..Len(act0.precond)} ELSE {})

\* what an add_const call of execute was given and returned
add_const_call(pddl, constraint, constraints) ==
    LET r == add_const(pddl, constraint, constraints)
    IN [op |-> "add_const", link |-> <<constraint[1], Expr(<<>>, <<>>), constraint[2]>>,
        action |-> constraint[2], before |-> constraints, after |-> r.value,
        raised |-> r.raised, printed |-> FALSE]

\* what one iteration of the loop of execute leaves: the new values, what
\* was selected, the calls of add_const and protect, and raised: "none",
\* "IndexError" (caught by execute) or "TypeError"
iteration_result(s, G, act1, act0, raised_by, completed, value, links, message, calls) ==
    [raised |-> raised_by, selected |-> TRUE,
     agenda |-> agenda_after(s.agenda, G, act1, act0, completed),
     actions |-> s.actions \cup {act0}, constraints |-> value,
     causal_links |-> links, printed |-> message, calls |-> calls,
     G |-> G, act1 |-> act1, act0 |-> act0]

\* execute from "CausalLinks U {<act0, G, act1>}" to the end of the body
execute_link(pddl, s, G, act1, act0, protect_seed, value, message, calls) ==
    LET link == <<act0, G, act1>>
        links == IF \E n \in 1..Len(s.causal_links) : s.causal_links[n] = link
                 THEN s.causal_links ELSE Append(s.causal_links, link)
        order == IterOrder(s.actions \cup {act0}, protect_seed)
        p2 == protect_each(pddl, [n \in 1..Len(order) |-> <<link, order[n]>>],
                           1, value, message, calls)
    IN iteration_result(s, G, act1, act0, p2.raised, TRUE, p2.value, links,
                        p2.printed, p2.calls)

\* execute at "Constraints = add_const(act0 < act1, Constraints)"; the
\* preconditions of act0 are on the agenda by then
execute_order(pddl, s, G, act1, act0, protect_seed, value, message, calls) ==
    LET c2 == add_const_call(pddl, <<act0, act1>>, value)
    IN IF c2.raised # "none"
       THEN iteration_result(s, G, act1, act0, c2.raised, TRUE, value, s.causal_links,
                             message, Append(calls, c2))
       ELSE execute_link(pddl, s, G, act1, act0, protect_seed, c2.after, message,
                         Append(calls, c2))

\* execute from "self.agenda.remove((G, act1))" on
execute_selected(pddl, s, G, act1, act0, protect_seed) ==
    LET c1 == add_const_call(pddl, <<start_action(pddl), act0>>, s.constraints)
        p1 == protect_each(pddl,
                  [n \in 1..Len(s.causal_links) |-> <<s.causal_links[n], act0>>],
                  1, c1.after, FALSE, <<c1>>)
    IN IF c1.raised # "none"
       THEN iteration_result(s, G, act1, act0, c1.raised, FALSE, s.constraints,
                             s.causal_links, FALSE, <<c1>>)
       ELSE IF p1.raised # "none"
       THEN iteration_result(s, G, act1, act0, p1.raised, FALSE, p1.value,
                             s.causal_links, p1.printed, p1.calls)
       ELSE execute_order(pddl, s, G, act1, act0, protect_seed, p1.value, p1.printed,
                          p1.calls)

\* one iteration of the loop of execute on the state s = [agenda, actions,
\* constraints, causal_links], for the iteration orders of self.agenda, of
\* self.actions in find_open_precondition and of self.actions in the last
\* loop
execute_iteration(pddl, expanded, s, agenda_seed, actions_seed, protect_seed) ==
    LET f == find_open_precondition(IterOrder(s.agenda, agenda_seed),
                                    IterOrder(s.actions, actions_seed) \o expanded)
    IN IF f.raised # "none"
       THEN [raised |-> f.raised, selected |-> FALSE, agenda |-> s.agenda,
             actions |-> s.actions, constraints |-> s.constraints,
             causal_links |-> s.causal_links, printed |-> FALSE, calls |-> <<>>,
             G |-> Expr(<<>>, <<>>), act1 |-> start_action(pddl),
             act0 |-> start_action(pddl)]
       ELSE execute_selected(pddl, s, f.G, f.act1, f.act0, protect_seed)

\* a slip: the dictionary maps an action to the actions before it
POP_convert_reversed(constraints) ==
    [k \in {e[2] : e \in constraints} |-> {e[1] : e \in {d \in constraints : d[2] = k}}]

\* PartialOrderPlanner.convert: the dictionary from an action to the set of
\* the actions that the constraints put after it
POP_convert(constraints) ==
    [k \in {e[1] : e \in constraints} |-> {e[2] : e \in {d \in constraints : d[1] = k}}]

\* toposort before its loop: no key is in its own set, and every element of
\* a set that is not a key becomes a key with an empty set
toposort_graph(graph) ==
    LET extra == UNION {graph[k] : k \in DOMAIN graph} \ DOMAIN graph
    IN [k \in DOMAIN graph \cup extra |-> IF k \in extra THEN {} ELSE graph[k] \ {k}]

\* toposort: the elements yielded by one turn of the loop
ordered(graph) == {element \in DOMAIN graph : graph[element] = {}}

\* toposort: the graph after one turn of the loop
toposort_rest(graph) ==
    [element \in DOMAIN graph \ ordered(graph) |-> graph[element] \ ordered(graph)]

(***************************************************************************)
(* HLA: an action with a resource ledger and a job order.  A precondition  *)
(* or effect list may hold values that are not expressions: None (the      *)
(* default of the constructor) or a list (job_shop_problem passes the pair *)
(* [positive, negative]); reading .args of such a value raises.            *)
(***************************************************************************)
NoneClause == [kind |-> "None"]

ListClause(items) == [kind |-> "list", items |-> items]

\* whether reading e.args succeeds
has_args(e) == "args" \in DOMAIN e

\* the empty dictionary
NoResources == [resource \in {} |-> 0]

\* HLA.__init__; Action.convert returns a list as it is
HLA(action, precond, effect, duration, consume, use) ==
    [name |-> action.op, args |-> action.args,
     precond |-> IF precond = <<>> THEN <<NoneClause, NoneClause>> ELSE precond,
     effect |-> IF effect = <<>> THEN <<NoneClause, NoneClause>> ELSE effect,
     duration |-> duration, consumes |-> consume, uses |-> use,
     completed |-> FALSE]

\* HLA.has_consumable_resource
has_consumable_resource(self, available_resources) ==
    \A resource \in DOMAIN self.consumes :
        /\ resource \in DOMAIN available_resources
        /\ ~(available_resources[resource] < self.consumes[resource])

\* HLA.has_usable_resource
has_usable_resource(self, available_resources) ==
    \A resource \in DOMAIN self.uses :
        /\ resource \in DOMAIN available_resources
        /\ ~(available_resources[resource] < self.uses[resource])

\* the position of the first occurrence of a job in a group, 0 when absent
index_in(group, job) ==
    LET I == {i \in 1..Len(group) : group[i] = job}
    IN IF I = {} THEN 0 ELSE CHOOSE i \in I : \A j \in I : i <= j

\* a slip: the job order is not looked at
inorder_ignored(objs, self, job_order) == TRUE

\* HLA.inorder for the job numbered self among the objects objs; a job
\* order lists the numbers of its jobs.  The first group that holds the job
\* decides.
inorder(objs, self, job_order) ==
    LET G == {g \in 1..Len(job_order) : index_in(job_order[g], self) > 0}
    IN IF G = {} THEN TRUE
       ELSE LET g == CHOOSE h \in G : \A k \in G : h <= k
                jobs == job_order[g]
            IN \A i \in 1..(index_in(jobs, self) - 1) : objs[jobs[i]].completed

\* the first clause of a list that check_precond stops at, 0 when it passes
failing_precond(self, kb, args) ==
    LET I == {i \in 1..Len(self.precond) :
                \/ ~has_args(self.precond[i])
                \/ substitute(self, self.precond[i], args) \notin kb}
    IN IF I = {} THEN 0 ELSE CHOOSE i \in I : \A j \in I : i <= j

\* the first effect that is not an expression, 0 when all are
failing_effect(self) ==
    LET I == {i \in 1..Len(self.effect) : ~has_args(self.effect[i])}
    IN IF I = {} THEN 0 ELSE CHOOSE i \in I : \A j \in I : i <= j

\* Action.act on an HLA: [raised, kb]
HLA_act(self, kb, args) ==
    LET p == failing_precond(self, kb, args)
        e == failing_effect(self)
    IN IF p > 0
       THEN [raised |-> IF has_args(self.precond[p]) THEN "precond" ELSE "AttributeError",
             kb |-> kb]
       ELSE IF e > 0
       THEN [raised |-> "AttributeError",
             kb |-> apply_effects([self EXCEPT !.effect = Take(self.effect, e - 1)],
                                  kb, args, 1)]
       ELSE [raised |-> "none", kb |-> apply_effects(self, kb, args, 1)]

\* a slip: the used resources are removed as well
remove_consumed_and_used(self, available_resources) ==
    [resource \in DOMAIN available_resources |->
        available_resources[resource]
        - (IF resource \in DOMAIN self.consumes THEN self.consumes[resource] ELSE 0)
        - (IF resource \in DOMAIN self.uses THEN self.uses[resource] ELSE 0)]

\* the loop of do_action over self.consumes
remove_consumed(self, available_resources) ==
    [resource \in DOMAIN available_resources |->
        IF resource \in DOMAIN self.consumes
        THEN available_resources[resource] - self.consumes[resource]
        ELSE available_resources[resource]]

\* a slip: the resources are removed and the job is completed before the
\* preconditions are checked
do_action_early(objs, self, job_order, available_resources, kb, args) ==
    LET unchanged(e) == [raised |-> e, resources |-> available_resources,
                         kb |-> kb, objs |-> objs]
        r == HLA_act(objs[self], kb, args)
    IN IF ~has_usable_resource(objs[self], available_resources) THEN unchanged("usable")
       ELSE IF ~has_consumable_resource(objs[self], available_resources)
       THEN unchanged("consumable")
       ELSE IF ~inorder(objs, self, job_order) THEN unchanged("order")
       ELSE [raised |-> r.raised,
             resources |-> remove_consumed(objs[self], available_resources),
             kb |-> r.kb, objs |-> [objs EXCEPT ![self].completed = TRUE]]

\* HLA.do_action of the job numbered self: [raised, resources, kb, objs]
do_action(objs, self, job_order, available_resources, kb, args) ==
    LET unchanged(e) == [raised |-> e, resources |-> available_resources,
                         kb |-> kb, objs |-> objs]
        r == HLA_act(objs[self], kb, args)
    IN IF ~has_usable_resource(objs[self], available_resources) THEN unchanged("usable")
       ELSE IF ~has_consumable_resource(objs[self], available_resources)
       THEN unchanged("consumable")
       ELSE IF ~inorder(objs, self, job_order) THEN unchanged("order")
       ELSE IF r.raised # "none"
       THEN [raised |-> r.raised, resources |-> available_resources,
             kb |-> r.kb, objs |-> objs]
       ELSE [raised |-> "none", resources |-> remove_consumed(objs[self], available_resources),
             kb |-> r.kb, objs |-> [objs EXCEPT ![self].completed = TRUE]]

\* job_shop_problem: the jobs as HLA objects in the order of the list of
\* actions, the two job groups by the numbers of their jobs, the resources
job_shop_problem ==
    LET job(name, part, duration, consume, use) ==
            HLA(Expr(name, <<>>),
                <<ListClause(<<>>), ListClause(<<part>>)>>,
                <<ListClause(<<part>>), ListClause(<<>>)>>,
                duration, consume, use)
    IN [init |-> <<Expr(nCar, <<"C1">>), Expr(nCar, <<"C2">>),
                   Expr(nWheels, <<"W1">>), Expr(nWheels, <<"W2">>),
                   Expr(nEngine, <<"E2">>), Expr(nEngine, <<"E2">>)>>,
        jobs |-> <<job(nAddEngine1, Expr(nHas, <<"C1", "E1">>), 30,
                       NoResources, [EngineHoists |-> 1]),
                   job(nAddEngine2, Expr(nHas, <<"C2", "E2">>), 60,
                       NoResources, [EngineHoists |-> 1]),
                   job(nAddWheels1, Expr(nHas, <<"C1", "W1">>), 30,
                       [LugNuts |-> 20], [WheelStations |-> 1]),
                   job(nAddWheels2, Expr(nHas, <<"C2", "W2">>), 15,
                       [LugNuts |-> 20], [WheelStations |-> 1]),
                   job(nInspect1, Expr(nInspected, <<"C1">>), 10,
                       NoResources, [Inspectors |-> 1]),
                   job(nInspect2, Expr(nInspected, <<"C2">>), 10,
                       NoResources, [Inspectors |-> 1])>>,
        job_order |-> <<<<1, 3, 5>>, <<2, 4, 6>>>>,
        resources |-> [EngineHoists |-> 1, WheelStations |-> 2, Inspectors |-> 2,
                       LugNuts |-> 500]]

\* the same job shop with the clauses given as Action documents them, a
\* list of expressions: every job needs its part or its car and adds what
\* job_shop_problem lists as its effect
car_assembly ==
    LET job(name, need, part, duration, consume, use) ==
            HLA(Expr(name, <<>>), <<need>>, <<part>>, duration, consume, use)
    IN [init |-> job_shop_problem.init,
        jobs |-> <<job(nAddEngine1, Expr(nEngine, <<"E1">>), Expr(nHas, <<"C1", "E1">>),
                       30, NoResources, [EngineHoists |-> 1]),
                   job(nAddEngine2, Expr(nEngine, <<"E2">>), Expr(nHas, <<"C2", "E2">>),
                       60, NoResources, [EngineHoists |-> 1]),
                   job(nAddWheels1, Expr(nWheels, <<"W1">>), Expr(nHas, <<"C1", "W1">>),
                       30, [LugNuts |-> 20], [WheelStations |-> 1]),
                   job(nAddWheels2, Expr(nWheels, <<"W2">>), Expr(nHas, <<"C2", "W2">>),
                       15, [LugNuts |-> 20], [WheelStations |-> 1]),
                   job(nInspect1, Expr(nCar, <<"C1">>), Expr(nInspected, <<"C1">>),
                       10, NoResources, [Inspectors |-> 1]),
                   job(nInspect2, Expr(nCar, <<"C2">>), Expr(nInspected, <<"C2">>),
                       10, NoResources, [Inspectors |-> 1])>>,
        job_order |-> job_shop_problem.job_order,
        resources |-> job_shop_problem.resources]

ShopProblems == {"job_shop_problem", "car_assembly"}

Shop(name) ==
    CASE name = "job_shop_problem" -> job_shop_problem
      [] name = "car_assembly" -> car_assembly

\* the resources that a shop is run with: those of job_shop_problem, the
\* same with lug nuts for one car only, and the same without inspectors
Ledgers ==
    {job_shop_problem.resources,
     [job_shop_problem.resources EXCEPT !.LugNuts = 30],
     [EngineHoists |-> 1, WheelStations |-> 2, LugNuts |-> 500]}

(***************************************************************************)
(* State.                                                                  *)
(***************************************************************************)
VARIABLES
    problem,      \* the name of the PDDL problem being solved
    driver,       \* the driver function that runs GraphPlan on it
    objects,      \* Graph.objects, in its iteration order
    hashSeed,     \* selects the iteration order of the sets of actions
    levels,       \* Graph.levels
    solution,     \* GraphPlan.solution
    nogoods,      \* GraphPlan.nogoods
    pc,           \* the position of the driver and of the replay
    result,       \* what the driver returned
    plan,         \* linearize(result)
    facts,        \* pddl.init / the fact store that actions are applied to
    before,       \* the facts when the last call of act was made
    done,         \* the number of actions applied
    raised,       \* the exception raised by the last call of act
    call,         \* the last call of act
    expanded_actions, \* PartialOrderPlanner.expanded_actions
    agenda,       \* PartialOrderPlanner.agenda
    actions,      \* PartialOrderPlanner.actions
    constraints,  \* PartialOrderPlanner.constraints
    causal_links, \* PartialOrderPlanner.causal_links
    step,         \* the local step of execute
    printed,      \* the messages that execute and protect have printed
    iteration,    \* the last iteration of execute: the values before it,
                  \* what it selected and its calls of add_const and protect
    graph,        \* the dictionary that toposort works on
    emitted,      \* the groups that toposort has yielded
    jobs,         \* the HLA objects of a shop, each with its completed flag
    resources,    \* the available resources of the shop
    on_entry,     \* the jobs and the resources when do_action was last called
    new_graph,    \* cyclic: the dictionary from a vertex to its neighbors
    path,         \* cyclic: the set of the vertices being visited
    frames,       \* cyclic: the calls of visit that have not returned
    outer,        \* cyclic: the number of keys that any() has passed to visit
    visits        \* cyclic: the number of calls of visit made so far

vars == <<problem, driver, objects, hashSeed, levels, solution, nogoods, pc,
          result, plan, facts, before, done, raised, call,
          expanded_actions, agenda, actions, constraints, causal_links, step,
          printed, iteration, graph, emitted, jobs, resources, on_entry,
          new_graph, path, frames, outer, visits>>

\* the state of the partial-order planner
planVars == <<expanded_actions, agenda, actions, constraints, causal_links, step,
              printed, iteration, graph, emitted>>

\* the state of GraphPlan and of the fact store, but for pc and result
graphVars == <<hashSeed, levels, solution, nogoods, plan, facts, before, done,
               raised, call>>

\* the state of a shop of HLA jobs
shopVars == <<jobs, resources, on_entry>>

\* the state of a call of cyclic
searchVars == <<new_graph, path, frames, outer, visits>>

NoGraph == [keys |-> <<>>, to |-> <<>>]

\* cyclic has not been called
NoSearch ==
    /\ new_graph = NoGraph
    /\ path = {}
    /\ frames = <<>>
    /\ outer = 0
    /\ visits = 0

\* no shop has been made
NoShop ==
    /\ jobs = <<>>
    /\ resources = NoResources
    /\ on_entry = [jobs |-> <<>>, resources |-> NoResources]

NoIteration == [selected |-> FALSE, raised |-> "none", calls |-> <<>>]

\* no PartialOrderPlanner has been made
NoPlanner ==
    /\ expanded_actions = <<>>
    /\ agenda = {}
    /\ actions = {}
    /\ constraints = SetOf({})
    /\ causal_links = <<>>
    /\ step = 0
    /\ printed = {}
    /\ iteration = NoIteration
    /\ graph = <<>>
    /\ emitted = <<>>

Drivers ==
    {"spare_tire_graphplan", "three_block_tower_graphplan",
     "have_cake_and_eat_cake_too_graphplan"}

\* the goals that a driver passes to goal_test and extract_solution
goals == Problem(problem).goals

Pending == [kind |-> "pending", value |-> <<>>]

NoCall == [name |-> <<>>, args |-> <<>>, on |-> "none", schema |-> 0]

\* GraphPlan.__init__ and Graph.__init__ for a problem, and the first
\* statement of the driver's loop
Init ==
    /\ problem \in ProblemNames
    /\ driver \in Drivers
    /\ driver = "have_cake_and_eat_cake_too_graphplan"
          => problem = "have_cake_and_eat_cake_too"
    /\ \E seed \in 0..(MaxSeed - 1) :
          objects = IterOrder(Graph_objects(Problem(problem)), seed)
    /\ hashSeed \in 0..(MaxSeed - 1)
    /\ levels = <<Level(FolKB(Problem(problem).init))>>
    /\ solution = <<>>
    /\ nogoods = {}
    /\ pc = IF driver = "three_block_tower_graphplan" THEN "test" ELSE "expand"
    /\ result = Pending
    /\ plan = <<>>
    /\ facts = FolKB(Problem(problem).init)
    /\ before = facts
    /\ done = 0
    /\ raised = "none"
    /\ call = NoCall
    /\ NoPlanner
    /\ NoShop
    /\ NoSearch

(***************************************************************************)
(* The driver loops: spare_tire_graphplan and                              *)
(* have_cake_and_eat_cake_too_graphplan expand, test the goals and then    *)
(* check level-off; three_block_tower_graphplan tests the goals, expands   *)
(* and then checks level-off.                                              *)
(***************************************************************************)
\* graphplan.graph.expand_graph()
Expand ==
    /\ pc = "expand"
    /\ Len(levels) < MaxLevels
    /\ levels' = expand_graph(levels, Problem(problem).actions, objects)
    /\ pc' = IF driver = "three_block_tower_graphplan" THEN "leveloff" ELSE "test"
    /\ UNCHANGED planVars
    /\ UNCHANGED shopVars
    /\ UNCHANGED searchVars
    /\ UNCHANGED <<problem, driver, objects, hashSeed, solution, nogoods,
                   result, plan, facts, before, done, raised, call>>

\* the driver's goal_test(kb, goals) on the newest level
goal_test(kb, gs) == \A i \in 1..Len(gs) : ask(kb, gs[i])

\* a slip: every driver returns the list of solutions as it is
returned_all(drv, value) == [kind |-> "solution", value |-> value]

\* the value a driver returns for a non-empty list of solutions
returned(drv, value) ==
    IF drv = "have_cake_and_eat_cake_too_graphplan"
    THEN IF Len(value) < 2 THEN [kind |-> "IndexError", value |-> <<>>]
         ELSE [kind |-> "solution", value |-> <<value[2]>>]
    ELSE [kind |-> "solution", value |-> value]

\* if goal_test(...) and non_mutex_goals(goals, -1):
\*     solution = graphplan.extract_solution(goals, -1)
\*     if solution: return solution
Test ==
    /\ pc = "test"
    /\ LET after == IF driver = "three_block_tower_graphplan" THEN "expand" ELSE "leveloff"
       IN IF goal_test(at(levels, -1).current_state, goals)
             /\ non_mutex_goals(levels, goals, -1)
          THEN LET r == extract_solution(levels, goals, -1, solution, nogoods, hashSeed)
               IN /\ solution' = r.solution
                  /\ nogoods' = r.nogoods
                  /\ IF r.ret \notin {"None", "list"}
                     THEN /\ result' = [kind |-> r.ret, value |-> <<>>]
                          /\ pc' = "returned"
                     ELSE IF r.ret = "list" /\ r.value # <<>>
                     THEN /\ result' = returned(driver, r.value)
                          /\ pc' = "returned"
                     ELSE /\ result' = result
                          /\ pc' = after
          ELSE /\ pc' = after
               /\ UNCHANGED <<solution, nogoods, result>>
    /\ UNCHANGED planVars
    /\ UNCHANGED shopVars
    /\ UNCHANGED searchVars
    /\ UNCHANGED <<problem, driver, objects, hashSeed, levels, plan, facts,
                   before, done, raised, call>>

\* if len(graphplan.graph.levels) >= 2 and graphplan.check_leveloff(): return None
Leveloff ==
    /\ pc = "leveloff"
    /\ IF Len(levels) >= 2 /\ check_leveloff(levels)
       THEN /\ result' = [kind |-> "None", value |-> <<>>]
            /\ pc' = "returned"
       ELSE /\ result' = result
            /\ pc' = IF driver = "three_block_tower_graphplan" THEN "test" ELSE "expand"
    /\ UNCHANGED planVars
    /\ UNCHANGED shopVars
    /\ UNCHANGED searchVars
    /\ UNCHANGED <<problem, driver, objects, hashSeed, levels, solution, nogoods,
                   plan, facts, before, done, raised, call>>

\* linearize(solution) of the returned solution
Linearize ==
    /\ pc = "returned"
    /\ result.kind = "solution"
    /\ plan' = linearize(result.value, hashSeed)
    /\ pc' = "replay"
    /\ UNCHANGED planVars
    /\ UNCHANGED shopVars
    /\ UNCHANGED searchVars
    /\ UNCHANGED <<problem, driver, objects, hashSeed, levels, solution, nogoods,
                   result, facts, before, done, raised, call>>

\* the replay of the linear plan: pddl.act(plan[done]) from the initial facts
Replay ==
    /\ pc = "replay"
    /\ done < Len(plan)
    /\ LET r == PDDL_act(Problem(problem).actions, facts, plan[done + 1])
       IN /\ raised' = r.raised
          /\ facts' = r.init
          /\ before' = facts
          /\ call' = [name |-> plan[done + 1].op, args |-> plan[done + 1].args,
                      on |-> "PDDL", schema |-> 0]
          /\ IF r.raised = "none"
             THEN done' = done + 1 /\ pc' = pc
             ELSE done' = done /\ pc' = "failed"
    /\ UNCHANGED planVars
    /\ UNCHANGED shopVars
    /\ UNCHANGED searchVars
    /\ UNCHANGED <<problem, driver, objects, hashSeed, levels, solution, nogoods,
                   result, plan>>

\* the end of the replay
Replayed ==
    /\ pc = "replay"
    /\ done = Len(plan)
    /\ pc' = "replayed"
    /\ UNCHANGED planVars
    /\ UNCHANGED shopVars
    /\ UNCHANGED searchVars
    /\ UNCHANGED <<problem, driver, objects, hashSeed, levels, solution, nogoods,
                   result, plan, facts, before, done, raised, call>>

Next == Expand \/ Test \/ Leveloff \/ Linearize \/ Replay \/ Replayed

Spec == Init /\ [][Next]_vars

RECURSIVE driver_loop(_, _, _, _, _, _, _, _)
\* the loop of a driver run to its end from one of its statements, at, on
\* the problem pb with the levels lv: the kind of what it returns or
\* raises, "pending" when the graph has MaxLevels levels.  The order is
\* "expand_first" for the loop of spare_tire_graphplan and "test_first" for
\* the loop of three_block_tower_graphplan.
driver_loop(order, pb, objs, seed, lv, sol, ng, at_pc) ==
    IF at_pc = "expand"
    THEN IF Len(lv) >= MaxLevels THEN "pending"
         ELSE driver_loop(order, pb, objs, seed, expand_graph(lv, pb.actions, objs),
                          sol, ng, IF order = "test_first" THEN "leveloff" ELSE "test")
    ELSE IF at_pc = "leveloff"
    THEN IF Len(lv) >= 2 /\ check_leveloff(lv) THEN "None"
         ELSE driver_loop(order, pb, objs, seed, lv, sol, ng,
                          IF order = "test_first" THEN "test" ELSE "expand")
    ELSE LET after == IF order = "test_first" THEN "expand" ELSE "leveloff"
         IN IF goal_test(at(lv, -1).current_state, pb.goals)
               /\ non_mutex_goals(lv, pb.goals, -1)
            THEN LET r == extract_solution(lv, pb.goals, -1, sol, ng, seed)
                 IN IF r.ret \notin {"None", "list"} THEN r.ret
                    ELSE IF r.ret = "list" /\ r.value # <<>> THEN "solution"
                    ELSE driver_loop(order, pb, objs, seed, lv, r.solution, r.nogoods, after)
            ELSE driver_loop(order, pb, objs, seed, lv, sol, ng, after)

\* what the loop of the given order ends with on the problem of this run,
\* with the same iteration orders
loop_outcome(order) ==
    driver_loop(order, Problem(problem), objects, hashSeed,
                <<Level(FolKB(Problem(problem).init))>>, <<>>, {},
                IF order = "test_first" THEN "test" ELSE "expand")


(***************************************************************************)
(* The fact store under arbitrary calls of act: PDDL.act(action) on the    *)
(* problem's facts, and Action.act(kb, args) of one of its schemas.        *)
(***************************************************************************)
\* the constants of a problem: the arguments of its initial facts and the
\* symbols of its schemas that are not lower-case
Terms(pddl) ==
    LET of(clauses) == UNION {Range(clauses[i].args) : i \in 1..Len(clauses)}
        schema(a) == Range(a.args) \cup of(a.precond) \cup of(a.effect)
    IN of(pddl.init) \cup
       {sym \in UNION {schema(pddl.actions[n]) : n \in 1..Len(pddl.actions)} : ~islower(sym)}

\* the argument tuples for a schema
GroundArgs(pddl, a) == [1..Len(a.args) -> Terms(pddl)]

InitAct ==
    /\ problem \in ActProblems
    /\ driver = "spare_tire_graphplan"
    /\ objects = IterOrder(Graph_objects(Problem(problem)), 0)
    /\ hashSeed = 0
    /\ levels = <<Level(FolKB(Problem(problem).init))>>
    /\ solution = <<>>
    /\ nogoods = {}
    /\ pc = "act"
    /\ result = Pending
    /\ plan = <<>>
    /\ facts = FolKB(Problem(problem).init)
    /\ before = facts
    /\ done = 0
    /\ raised = "none"
    /\ call = NoCall
    /\ NoPlanner
    /\ NoShop
    /\ NoSearch

\* pddl.act(action) for an action of a known schema
PDDLAct ==
    /\ pc = "act"
    /\ done < MaxCalls
    /\ \E n \in 1..Len(Problem(problem).actions) :
         \E args \in GroundArgs(Problem(problem), Problem(problem).actions[n]) :
            LET action == Expr(Problem(problem).actions[n].name, args)
                r == PDDL_act(Problem(problem).actions, facts, action)
            IN /\ facts' = r.init
               /\ before' = facts
               /\ raised' = r.raised
               /\ call' = [name |-> action.op, args |-> args, on |-> "PDDL", schema |-> 0]
    /\ done' = done + 1
    /\ UNCHANGED planVars
    /\ UNCHANGED shopVars
    /\ UNCHANGED searchVars
    /\ UNCHANGED <<problem, driver, objects, hashSeed, levels, solution, nogoods,
                   pc, result, plan>>

\* pddl.act(action) for an action name that no schema of the problem has
PDDLActUnknown ==
    /\ pc = "act"
    /\ done < MaxCalls
    /\ \E args \in {<<>>} \cup {<<c>> : c \in Terms(Problem(problem))} :
         LET action == Expr(nFly, args)
             r == PDDL_act(Problem(problem).actions, facts, action)
         IN /\ facts' = r.init
            /\ before' = facts
            /\ raised' = r.raised
            /\ call' = [name |-> action.op, args |-> args, on |-> "PDDL", schema |-> 0]
    /\ done' = done + 1
    /\ UNCHANGED planVars
    /\ UNCHANGED shopVars
    /\ UNCHANGED searchVars
    /\ UNCHANGED <<problem, driver, objects, hashSeed, levels, solution, nogoods,
                   pc, result, plan>>

\* a.act(kb, args) for a schema a of the problem, on the fact store
ActionAct ==
    /\ pc = "act"
    /\ done < MaxCalls
    /\ \E n \in 1..Len(Problem(problem).actions) :
         \E args \in GroundArgs(Problem(problem), Problem(problem).actions[n]) :
            LET a == Problem(problem).actions[n]
                r == Action_act(a, facts, args)
            IN /\ facts' = r.kb
               /\ before' = facts
               /\ raised' = r.raised
               /\ call' = [name |-> a.name, args |-> args, on |-> "Action", schema |-> n]
    /\ done' = done + 1
    /\ UNCHANGED planVars
    /\ UNCHANGED shopVars
    /\ UNCHANGED searchVars
    /\ UNCHANGED <<problem, driver, objects, hashSeed, levels, solution, nogoods,
                   pc, result, plan>>

NextAct == PDDLAct \/ PDDLActUnknown \/ ActionAct

SpecAct == InitAct /\ [][NextAct]_vars

(***************************************************************************)
(* A shop of HLA jobs under arbitrary calls of do_action with the job      *)
(* order, the resources and the fact store of the shop.                    *)
(***************************************************************************)
job_order == Shop(problem).job_order

InitHLA ==
    /\ problem \in ShopProblems
    /\ driver = "do_action"
    /\ objects = <<>>
    /\ hashSeed = 0
    /\ levels = <<>>
    /\ solution = <<>>
    /\ nogoods = {}
    /\ pc = "act"
    /\ result = Pending
    /\ plan = <<>>
    /\ facts = FolKB(Shop(problem).init)
    /\ before = facts
    /\ done = 0
    /\ raised = "none"
    /\ call = NoCall
    /\ NoPlanner
    /\ jobs = Shop(problem).jobs
    /\ resources \in Ledgers
    /\ on_entry = [jobs |-> jobs, resources |-> resources]
    /\ NoSearch

\* job.do_action(job_order, resources, kb, []) for a job of the shop
DoAction ==
    /\ pc = "act"
    /\ done < MaxCalls
    /\ \E self \in 1..Len(jobs) :
         \E r \in {do_action(jobs, self, job_order, resources, facts, <<>>)} :
            /\ facts' = r.kb
            /\ resources' = r.resources
            /\ jobs' = r.objs
            /\ raised' = r.raised
            /\ call' = [name |-> jobs[self].name, args |-> <<>>, on |-> "HLA",
                        schema |-> self]
    /\ before' = facts
    /\ on_entry' = [jobs |-> jobs, resources |-> resources]
    /\ done' = done + 1
    /\ UNCHANGED planVars
    /\ UNCHANGED <<problem, driver, objects, hashSeed, levels, solution, nogoods,
                   pc, result, plan>>
    /\ UNCHANGED searchVars

NextHLA == DoAction

SpecHLA == InitHLA /\ [][NextHLA]_vars


(***************************************************************************)
(* PartialOrderPlanner(pddl).execute().  The iteration order of a Python   *)
(* set is not specified: every iteration of execute draws the orders of    *)
(* self.agenda and self.actions anew.                                      *)
(***************************************************************************)
\* the problems given to the partial-order planner; on three_block_tower
\* the planner runs into its cap through too many agenda orders to list
PlannerProblems ==
    {"spare_tire", "have_cake_and_eat_cake_too", "socks_and_shoes", "cake_kept",
     "chicken_and_egg", "hen_and_down", "dinner", "snack", "breakfast"}

\* the cap of execute on its variable step
StepLimit == 200

\* PartialOrderPlanner.__init__ and initialize
InitPlanner ==
    /\ problem \in PlannerProblems
    /\ driver = "PartialOrderPlanner"
    /\ \E seed \in 0..(MaxSeed - 1) :
          objects = IterOrder(Graph_objects(Problem(problem)), seed)
    /\ hashSeed = 0
    /\ levels = <<>>
    /\ solution = <<>>
    /\ nogoods = {}
    /\ pc = "execute"
    /\ result = Pending
    /\ plan = <<>>
    /\ facts = FolKB(Problem(problem).init)
    /\ before = facts
    /\ done = 0
    /\ raised = "none"
    /\ call = NoCall
    /\ expanded_actions = expand_actions(Problem(problem), objects)
    /\ agenda = {<<Problem(problem).goals[i], finish_action(Problem(problem))>> :
                    i \in 1..Len(Problem(problem).goals)}
    /\ actions = {start_action(Problem(problem)), finish_action(Problem(problem))}
    /\ constraints = SetOf({<<start_action(Problem(problem)),
                               finish_action(Problem(problem))>>})
    /\ causal_links = <<>>
    /\ step = 1
    /\ printed = {}
    /\ iteration = NoIteration
    /\ graph = <<>>
    /\ emitted = <<>>
    /\ NoShop
    /\ NoSearch

\* one iteration of the loop "while len(self.agenda) > 0" of execute
Iterate ==
    /\ pc = "execute"
    /\ agenda # {}
    /\ \E agenda_seed, actions_seed, protect_seed \in 0..(MaxSeed - 1) :
         \E r \in {execute_iteration(Problem(problem), expanded_actions,
                     [agenda |-> agenda, actions |-> actions,
                      constraints |-> constraints, causal_links |-> causal_links],
                     agenda_seed, actions_seed, protect_seed)} :
         LET exhausted == r.raised = "none" /\ step + 1 > StepLimit
         IN /\ agenda' = r.agenda
            /\ actions' = r.actions
            /\ constraints' = r.constraints
            /\ causal_links' = r.causal_links
            /\ iteration' = [selected |-> r.selected, raised |-> r.raised,
                              calls |-> r.calls, G |-> r.G, act1 |-> r.act1,
                              act0 |-> r.act0, agenda |-> agenda, actions |-> actions,
                              constraints |-> constraints,
                              causal_links |-> causal_links]
            /\ printed' = printed
                  \cup (IF r.printed THEN {"Unable to resolve a threat"} ELSE {})
                  \cup (IF r.raised = "IndexError" THEN {"Probably Wrong"} ELSE {})
                  \cup (IF exhausted THEN {"Couldn't find a solution"} ELSE {})
            /\ IF r.raised = "IndexError"
               THEN pc' = "returned" /\ result' = [kind |-> "None", value |-> <<>>]
               ELSE IF r.raised # "none"
               THEN pc' = "returned" /\ result' = [kind |-> r.raised, value |-> <<>>]
               ELSE IF exhausted
               THEN pc' = "returned" /\ result' = [kind |-> "(None, None)", value |-> <<>>]
               ELSE pc' = pc /\ result' = result
    /\ step' = step + 1
    /\ UNCHANGED <<problem, driver, objects, expanded_actions, graph, emitted>>
    /\ UNCHANGED graphVars
    /\ UNCHANGED shopVars
    /\ UNCHANGED searchVars

\* the agenda is empty: the loop ends and execute returns None
Finished ==
    /\ pc = "execute"
    /\ agenda = {}
    /\ pc' = "returned"
    /\ result' = [kind |-> "None", value |-> <<>>]
    /\ UNCHANGED <<problem, driver, objects>>
    /\ UNCHANGED graphVars
    /\ UNCHANGED planVars
    /\ UNCHANGED shopVars
    /\ UNCHANGED searchVars

NextPlanner == Iterate \/ Finished

SpecPlanner == InitPlanner /\ [][NextPlanner]_vars

(***************************************************************************)
(* display_plan: toposort(convert(constraints)) for a set of constraints   *)
(* over the Action objects 1..MaxNodes, given by their identities.         *)
(***************************************************************************)
\* the pairs (a, b), a before b, that a set of constraints is made of
Orderings == {e \in (1..MaxNodes) \X (1..MaxNodes) : e[1] # e[2]}

InitTopo ==
    /\ problem = "none"
    /\ driver = "display_plan"
    /\ objects = <<>>
    /\ hashSeed = 0
    /\ levels = <<>>
    /\ solution = <<>>
    /\ nogoods = {}
    /\ pc = "convert"
    /\ result = Pending
    /\ plan = <<>>
    /\ facts = {}
    /\ before = {}
    /\ done = 0
    /\ raised = "none"
    /\ call = NoCall
    /\ expanded_actions = <<>>
    /\ agenda = {}
    /\ actions = {}
    /\ constraints \in {SetOf(pairs) : pairs \in SUBSET Orderings}
    /\ causal_links = <<>>
    /\ step = 0
    /\ printed = {}
    /\ iteration = NoIteration
    /\ graph = <<>>
    /\ emitted = <<>>
    /\ NoShop
    /\ NoSearch

topoVars == <<problem, driver, objects, expanded_actions, agenda, actions, constraints,
              causal_links, step, printed, iteration>>

\* self.convert(self.constraints)
Convert ==
    /\ pc = "convert"
    /\ graph' = POP_convert(constraints.pairs)
    /\ pc' = "toposort"
    /\ UNCHANGED <<emitted, result>>
    /\ UNCHANGED topoVars
    /\ UNCHANGED graphVars
    /\ UNCHANGED shopVars
    /\ UNCHANGED searchVars

\* toposort up to its loop; an empty graph ends the generator at once
Prepare ==
    /\ pc = "toposort"
    /\ IF DOMAIN graph = {}
       THEN pc' = "returned" /\ graph' = graph
       ELSE pc' = "loop" /\ graph' = toposort_graph(graph)
    /\ UNCHANGED <<emitted, result>>
    /\ UNCHANGED topoVars
    /\ UNCHANGED graphVars
    /\ UNCHANGED shopVars
    /\ UNCHANGED searchVars

\* one turn of the loop of toposort that yields
Yield ==
    /\ pc = "loop"
    /\ ordered(graph) # {}
    /\ emitted' = Append(emitted, ordered(graph))
    /\ graph' = toposort_rest(graph)
    /\ UNCHANGED <<pc, result>>
    /\ UNCHANGED topoVars
    /\ UNCHANGED graphVars
    /\ UNCHANGED shopVars
    /\ UNCHANGED searchVars

\* the turn of the loop that breaks: ValueError when elements are left
Stop ==
    /\ pc = "loop"
    /\ ordered(graph) = {}
    /\ IF DOMAIN graph # {}
       THEN pc' = "raised" /\ result' = [kind |-> "ValueError", value |-> <<>>]
       ELSE pc' = "returned" /\ result' = result
    /\ UNCHANGED <<graph, emitted>>
    /\ UNCHANGED topoVars
    /\ UNCHANGED graphVars
    /\ UNCHANGED shopVars
    /\ UNCHANGED searchVars

\* display_plan: list(reversed(list(toposort(...)))) is printed
Display ==
    /\ pc = "returned"
    /\ pc' = "displayed"
    /\ result' = [kind |-> "printed", value |-> Reverse(emitted)]
    /\ UNCHANGED <<graph, emitted>>
    /\ UNCHANGED topoVars
    /\ UNCHANGED graphVars
    /\ UNCHANGED shopVars
    /\ UNCHANGED searchVars

NextTopo == Convert \/ Prepare \/ Yield \/ Stop \/ Display

SpecTopo == InitTopo /\ [][NextTopo]_vars

(***************************************************************************)
(* cyclic(graph), statement by statement, for a set of pairs over the      *)
(* vertices 1..MaxNodes, pairs (a, a) included.  The iteration order of    *)
(* the set decides the order of the keys and of the neighbor lists of      *)
(* new_graph.                                                              *)
(***************************************************************************)
\* the pairs (from, to) that a graph is made of
Edges == (1..MaxNodes) \X (1..MaxNodes)

\* cyclic: new_graph after the loop over the elements of the graph, keys
\* in insertion order
build_new_graph(edge_list) ==
    LET firsts == {i \in 1..Len(edge_list) :
                      \A j \in 1..(i - 1) : edge_list[j][1] # edge_list[i][1]}
        key_at(n) == CHOOSE i \in firsts : Cardinality({j \in firsts : j < i}) = n - 1
        from(k) == SelectSeq(edge_list, LAMBDA e : e[1] = k)
    IN [keys |-> [n \in 1..Cardinality(firsts) |-> edge_list[key_at(n)][1]],
        to |-> [k \in {e[1] : e \in Range(edge_list)} |->
                   [i \in 1..Len(from(k)) |-> from(k)[i][2]]]]

\* new_graph.get(vertex, ())
neighbors(dict, v) == IF v \in DOMAIN dict.to THEN dict.to[v] ELSE <<>>

\* visit: a neighbor is entered with path.remove(vertex) never done
visit_return_kept(vertices, v) == vertices

\* visit: path.remove(vertex) before return False
visit_return(vertices, v) == vertices \ {v}

InitCyclic ==
    /\ problem = "none"
    /\ driver = "cyclic"
    /\ objects = <<>>
    /\ hashSeed = 0
    /\ levels = <<>>
    /\ solution = <<>>
    /\ nogoods = {}
    /\ pc = "cyclic"
    /\ result = Pending
    /\ plan = <<>>
    /\ facts = {}
    /\ before = {}
    /\ done = 0
    /\ raised = "none"
    /\ call = NoCall
    /\ expanded_actions = <<>>
    /\ agenda = {}
    /\ actions = {}
    /\ constraints \in {SetOf(pairs) : pairs \in SUBSET Edges}
    /\ causal_links = <<>>
    /\ step = 0
    /\ printed = {}
    /\ iteration = NoIteration
    /\ graph = <<>>
    /\ emitted = <<>>
    /\ NoShop
    /\ NoSearch

cyclicVars == <<problem, driver, objects, expanded_actions, agenda, actions,
                constraints, causal_links, step, printed, iteration, graph, emitted>>

\* lines 833-840: new_graph and the empty path
BuildGraph ==
    /\ pc = "cyclic"
    /\ \E seed \in 0..(MaxSeed - 1) :
          new_graph' = build_new_graph(IterOrder(constraints.pairs, seed))
    /\ path' = {}
    /\ frames' = <<>>
    /\ outer' = 0
    /\ visits' = 0
    /\ pc' = "any"
    /\ UNCHANGED result
    /\ UNCHANGED cyclicVars
    /\ UNCHANGED graphVars
    /\ UNCHANGED shopVars

\* any(visit(v) for v in new_graph): the call of visit on the next key
AnyVisit ==
    /\ pc = "any"
    /\ outer < Len(new_graph.keys)
    /\ outer' = outer + 1
    /\ visits' = visits + 1
    /\ path' = path \cup {new_graph.keys[outer + 1]}
    /\ frames' = <<[vertex |-> new_graph.keys[outer + 1], seen |-> 0]>>
    /\ pc' = "visit"
    /\ UNCHANGED <<new_graph, result>>
    /\ UNCHANGED cyclicVars
    /\ UNCHANGED graphVars
    /\ UNCHANGED shopVars

\* any(...) with no key left: cyclic returns False
AnyFalse ==
    /\ pc = "any"
    /\ outer = Len(new_graph.keys)
    /\ pc' = "returned"
    /\ result' = [kind |-> "bool", value |-> FALSE]
    /\ UNCHANGED searchVars
    /\ UNCHANGED cyclicVars
    /\ UNCHANGED graphVars
    /\ UNCHANGED shopVars

\* visit: the next neighbor is not in path and is visited
VisitNeighbor ==
    /\ pc = "visit"
    /\ LET top == frames[Len(frames)]
           todo == neighbors(new_graph, top.vertex)
       IN /\ top.seen < Len(todo)
          /\ todo[top.seen + 1] \notin path
          /\ path' = path \cup {todo[top.seen + 1]}
          /\ frames' = [frames EXCEPT ![Len(frames)].seen = top.seen + 1]
                          \o <<[vertex |-> todo[top.seen + 1], seen |-> 0]>>
    /\ visits' = visits + 1
    /\ UNCHANGED <<new_graph, outer, pc, result>>
    /\ UNCHANGED cyclicVars
    /\ UNCHANGED graphVars
    /\ UNCHANGED shopVars

\* visit: the next neighbor is in path; every call of visit returns True,
\* and so do any() and cyclic
VisitFound ==
    /\ pc = "visit"
    /\ LET top == frames[Len(frames)]
           todo == neighbors(new_graph, top.vertex)
       IN /\ top.seen < Len(todo)
          /\ todo[top.seen + 1] \in path
    /\ frames' = <<>>
    /\ pc' = "returned"
    /\ result' = [kind |-> "bool", value |-> TRUE]
    /\ UNCHANGED <<new_graph, path, outer, visits>>
    /\ UNCHANGED cyclicVars
    /\ UNCHANGED graphVars
    /\ UNCHANGED shopVars

\* visit: no neighbor left; the vertex leaves path and visit returns False
\* to the visit that called it, or to any()
VisitReturn ==
    /\ pc = "visit"
    /\ LET top == frames[Len(frames)]
       IN /\ top.seen = Len(neighbors(new_graph, top.vertex))
          /\ path' = visit_return(path, top.vertex)
    /\ frames' = SubSeq(frames, 1, Len(frames) - 1)
    /\ pc' = IF Len(frames) = 1 THEN "any" ELSE "visit"
    /\ UNCHANGED <<new_graph, outer, visits, result>>
    /\ UNCHANGED cyclicVars
    /\ UNCHANGED graphVars
    /\ UNCHANGED shopVars

NextCyclic ==
    BuildGraph \/ AnyVisit \/ AnyFalse \/ VisitNeighbor \/ VisitFound \/ VisitReturn

SpecCyclic == InitCyclic /\ [][NextCyclic]_vars

(***************************************************************************)
(* Properties.                                                             *)
(***************************************************************************)
\* l1 and l2 are P(args) and NotP(args)
Opposite(l1, l2) ==
    /\ l1.args = l2.args
    /\ l1.op = Not \o l2.op \/ l2.op = Not \o l1.op

\* the states reached from the states S by one more ground action
Successors(pddl, S) ==
    S \cup {Action_act(pddl.actions[n], s, args).kb :
              <<s, n, args>> \in
                 {t \in S \X (1..Len(pddl.actions)) \X
                        UNION {GroundArgs(pddl, pddl.actions[m]) : m \in 1..Len(pddl.actions)} :
                     /\ Len(t[3]) = Len(pddl.actions[t[2]].args)
                     /\ check_precond(pddl.actions[t[2]], t[1], t[3])}}

RECURSIVE Reachable(_, _)
\* the states reached from S by any sequence of ground actions
Reachable(pddl, S) ==
    LET T == Successors(pddl, S) IN IF T = S THEN S ELSE Reachable(pddl, T)

\* some sequence of ground actions leads from the initial facts to the goals
Solvable(pddl) ==
    \E s \in Reachable(pddl, {FolKB(pddl.init)}) : PDDL_goal_test(s, pddl.goals)

\* C1: whenever a driver returns a solution, the replay of
\* linearize(solution) with PDDL.act from the initial facts never hits an
\* unsatisfied precondition and ends in a state where every goal holds.
C1_ReplayReachesGoals ==
    /\ pc # "failed"
    /\ pc = "replayed" => PDDL_goal_test(facts, goals)

\* C2: a driver returns None only for a problem in which no sequence of
\* ground actions leads from the initial facts to the goals.
C2_NoneOnlyIfUnsolvable ==
    result.kind = "None" => ~Solvable(Problem(problem))

\* C3: the driver loop terminates with one of two results: it returns a
\* solution, or the graph has levelled off and it returns None.  Every run
\* of a driver is finite; this is its final result.
C3_DriverTerminates ==
    pc = "returned" =>
        /\ result.kind \in {"solution", "None"}
        /\ result.kind = "None" => Len(levels) >= 2 /\ check_leveloff(levels)

\* C4: on the spare-tire problem spare_tire_graphplan returns a plan once
\* the graph has 2 expanded levels, no two consecutive levels have equal
\* facts before that, and the plan has two steps, Remove(Flat, Axle) in the
\* first and PutOn(Spare, Axle) in the second.
C4_SpareTire ==
    (problem = "spare_tire" /\ driver = "spare_tire_graphplan") =>
        /\ result.kind \in {"pending", "solution"}
        /\ Len(levels) <= 3
        /\ (Len(levels) = 3 /\ pc # "test") => result.kind = "solution"
        /\ \A k \in 1..(Len(levels) - 1) :
              levels[k].current_state # levels[k + 1].current_state
        /\ result.kind = "solution" =>
              /\ Len(levels) = 3
              /\ Len(result.value[1]) = 2
              /\ Expr(nRemove, <<"Flat", "Axle">>) \in result.value[1][1]
              /\ Expr(nPutOn, <<"Spare", "Axle">>) \in result.value[1][2]

C4_Witness ==
    /\ problem = "spare_tire" /\ driver = "spare_tire_graphplan"
    /\ result.kind = "solution"
    /\ plan # <<>>

\* C5: on the cake problem the driver finds the sequence Eat(Cake),
\* Bake(Cake); in its replay from Have(Cake) the goal test is false right
\* after Eat(Cake), when Have(Cake) no longer holds, and true after
\* Bake(Cake).
C5_Cake ==
    (problem = "have_cake_and_eat_cake_too"
       /\ driver = "have_cake_and_eat_cake_too_graphplan") =>
        /\ result.kind \in {"pending", "solution"}
        /\ pc # "failed"
        /\ pc \in {"replay", "replayed"} =>
              /\ plan = <<Expr(nEat, <<"Cake">>), Expr(nBake, <<"Cake">>)>>
              /\ done = 1 => /\ ~PDDL_goal_test(facts, goals)
                             /\ Expr(nHave, <<"Cake">>) \notin facts
              /\ done = 2 => PDDL_goal_test(facts, goals)

C5_Witness ==
    /\ problem = "have_cake_and_eat_cake_too"
    /\ driver = "have_cake_and_eat_cake_too_graphplan"
    /\ pc = "replayed"
    /\ done = 2

\* C6, as claimed: on the three-block tower no plan is returned before the
\* graph has 2 expanded levels, and non_mutex_goals of the goal pair at
\* level 0 is False.
C6_Original ==
    (problem = "three_block_tower" /\ driver = "three_block_tower_graphplan") =>
        /\ result.kind = "solution" => Len(levels) >= 3
        /\ Len(levels) >= 2 => ~non_mutex_goals(levels, goals, 0)

\* C6, amended: on the three-block tower no plan is returned before the
\* graph has 2 expanded levels; non_mutex_goals of the goal pair at level 0
\* is True, and the pair is rejected at level 0 by the driver's goal test,
\* its literals not being facts of level 0.
C6_Tower ==
    (problem = "three_block_tower" /\ driver = "three_block_tower_graphplan") =>
        /\ result.kind = "solution" => Len(levels) >= 3
        /\ non_mutex_goals(levels, goals, 0)
        /\ ~goal_test(at(levels, 0).current_state, goals)

C6_Witness ==
    /\ problem = "three_block_tower" /\ driver = "three_block_tower_graphplan"
    /\ result.kind = "solution"
    /\ at(levels, 0).mutex # {}

\* the schema that the last call of act applied
called ==
    IF call.on = "Action" THEN Problem(problem).actions[call.schema]
    ELSE LET found == {n \in 1..Len(Problem(problem).actions) :
                          Problem(problem).actions[n].name = call.name}
         IN Problem(problem).actions[CHOOSE n \in found : \A m \in found : n <= m]

\* the name of the last call of act is the name of a schema
known == \E n \in 1..Len(Problem(problem).actions) :
            Problem(problem).actions[n].name = call.name

\* the substituted preconditions / effects of the last call of act
called_precond == {substitute(called, called.precond[i], call.args) : i \in 1..Len(called.precond)}

called_effect == [i \in 1..Len(called.effect) |-> substitute(called, called.effect[i], call.args)]

\* C7: an act call whose substituted preconditions are not all in the fact
\* store, or a PDDL.act call with an unknown action name, raises and leaves
\* the facts as they were.
C7_FailedActKeepsFacts ==
    (pc = "act" /\ call.on # "none") =>
        LET unknown == ~known
            unmet == known /\ ~(called_precond \subseteq before)
        IN /\ unknown => raised = "not_found" /\ facts = before
           /\ unmet => raised = "precond" /\ facts = before
           /\ raised # "none" => unknown \/ unmet

C7_Witness ==
    /\ pc = "act"
    /\ raised = "precond"
    /\ call.on = "Action"
    /\ called_precond \cap before # {}
    /\ facts # FolKB(Problem(problem).init)

\* C8: starting from the initial facts, which hold no literal together with
\* its complement, after any sequence of successful calls of act the fact
\* store holds at most one of P(args) and NotP(args).
C8_NoComplementaryPair ==
    pc = "act" => \A l1, l2 \in facts : ~Opposite(l1, l2)

\* C9, as claimed: after a successful act every substituted effect literal
\* of the action is in the store.
C9_Original ==
    (pc = "act" /\ call.on # "none" /\ raised = "none") =>
        \A i \in 1..Len(called_effect) : called_effect[i] \in facts

\* C9, amended: after a successful act every substituted effect literal is
\* in the store, unless a later effect of the same action is its complement.
C9_EffectsHold ==
    (pc = "act" /\ call.on # "none" /\ raised = "none") =>
        \A i \in 1..Len(called_effect) :
            (\A j \in (i + 1)..Len(called_effect) :
                 ~Opposite(called_effect[i], called_effect[j]))
               => called_effect[i] \in facts

C9_Witness ==
    /\ pc = "act"
    /\ call.on # "none"
    /\ raised = "none"
    /\ \E l \in Range(called_effect) : Take(l.op, 3) = Not /\ l \in facts
    /\ \E l \in Range(called_effect) : Take(l.op, 3) # Not /\ l \in facts

\* C10: every literal of a level's current_state is in the next level's
\* current_state.
C10_FactsPersist ==
    \A k \in 1..(Len(levels) - 1) :
        levels[k].current_state \subseteq levels[k + 1].current_state

\* a built level with a fact that no action of the level has as an effect
C10_Witness ==
    \E k \in 1..(Len(levels) - 1) :
        \E lit \in levels[k].current_state :
            /\ levels[k].next_state_links[lit] = <<p_expr(lit)>>
            /\ lit \in levels[k + 1].current_state
            /\ levels[k + 1].current_state # levels[k].current_state

\* C11: for consecutive built levels k and k+1 of a graph, every pair of
\* level k's mutex set is in level k+1's mutex set.  The built levels are
\* all but the newest one.
C11_MutexAccumulates ==
    \A k \in 1..(Len(levels) - 2) : levels[k].mutex \subseteq levels[k + 1].mutex

\* two built levels with mutex pairs, the later one with more of them
C11_Witness ==
    \E k \in 1..(Len(levels) - 2) :
        /\ levels[k].mutex # {}
        /\ levels[k].mutex # levels[k + 1].mutex

(***************************************************************************)
(* extract_solution called on a graph of any number of levels, for the     *)
(* problem's goals and for pairs of literals of the level.                 *)
(***************************************************************************)
\* the literals of the mutex pairs of a level
mutex_literals(level) ==
    {q \in level.mutex : \A e \in q : e \in DOMAIN level.next_state_links}

\* the goal lists that extract_solution is called with at levels[index]
GoalLists(index) ==
    {goals} \cup
    {<<a, b>> : <<a, b>> \in
        {t \in at(levels, index).current_state \X at(levels, index).current_state :
            {t[1], t[2]} \in mutex_literals(at(levels, index))}}

\* the problems on whose graphs extract_solution is called
ExtractProblems ==
    {"spare_tire", "have_cake_and_eat_cake_too", "socks_and_shoes", "cake_kept"}

InitExtract ==
    /\ problem \in ExtractProblems
    /\ driver = "spare_tire_graphplan"
    /\ objects = IterOrder(Graph_objects(Problem(problem)), 0)
    /\ hashSeed \in 0..(MaxSeed - 1)
    /\ levels = <<Level(FolKB(Problem(problem).init))>>
    /\ solution = <<>>
    /\ nogoods = {}
    /\ pc = "graph"
    /\ result = Pending
    /\ plan = <<>>
    /\ facts = FolKB(Problem(problem).init)
    /\ before = [solution |-> <<>>, nogoods |-> {}]
    /\ done = 0
    /\ raised = "none"
    /\ call = NoCall
    /\ NoPlanner
    /\ NoShop
    /\ NoSearch

\* graphplan.graph.expand_graph()
Grow ==
    /\ pc = "graph"
    /\ Len(levels) < MaxDepth
    /\ levels' = expand_graph(levels, Problem(problem).actions, objects)
    /\ call' = NoCall
    /\ UNCHANGED planVars
    /\ UNCHANGED shopVars
    /\ UNCHANGED searchVars
    /\ UNCHANGED <<problem, driver, objects, hashSeed, solution, nogoods, pc,
                   result, plan, facts, before, done, raised>>

\* graphplan.extract_solution(goals, index)
Extract ==
    /\ pc = "graph"
    /\ done < MaxExtracts
    /\ \E index \in (0 - Len(levels))..(0 - 1) :
         \E gs \in GoalLists(index) :
            LET r == extract_solution(levels, gs, index, solution, nogoods, hashSeed)
            IN /\ solution' = r.solution
               /\ nogoods' = r.nogoods
               /\ result' = [kind |-> r.ret, value |-> r.value]
               /\ call' = [name |-> <<>>, args |-> gs, on |-> "extract", schema |-> index]
    /\ before' = [solution |-> solution, nogoods |-> nogoods]
    /\ done' = done + 1
    /\ UNCHANGED planVars
    /\ UNCHANGED shopVars
    /\ UNCHANGED searchVars
    /\ UNCHANGED <<problem, driver, objects, hashSeed, levels, pc, plan, facts, raised>>

NextExtract == Grow \/ Extract

SpecExtract == InitExtract /\ [][NextExtract]_vars

\* C12: extract_solution(goals, index) with goals that are mutex at level
\* index records (level, goals) in nogoods and returns None at once: no
\* entry is added to self.solution, which every deeper call would do.
C12_MutexGoalsReturn ==
    (call.on = "extract" /\ ~non_mutex_goals(levels, call.args, call.schema)) =>
        /\ result.kind = "None"
        /\ solution = before.solution
        /\ nogoods = before.nogoods \cup {<<level_number(levels, call.schema), call.args>>}

\* a call with mutex goals that follows a call that added to self.solution
C12_Witness ==
    /\ call.on = "extract"
    /\ ~non_mutex_goals(levels, call.args, call.schema)
    /\ solution # <<>>
    /\ <<level_number(levels, call.schema), call.args>> \notin before.nogoods

(***************************************************************************)
(* Properties of the partial-order planner.                                *)
(***************************************************************************)
\* a value of self.constraints that is a set of pairs without a cycle
acyclic(value) == value.kind = "set" /\ ~cyclic(identities(value.pairs))

\* C13: after every call of add_const and of protect in execute, and in
\* every state of the run, cyclic(constraints) is False
C13_ConstraintsAcyclic ==
    driver = "PartialOrderPlanner" =>
        /\ acyclic(constraints)
        /\ \A k \in 1..Len(iteration.calls) :
              iteration.calls[k].raised = "none" => acyclic(iteration.calls[k].after)

\* the positions of the groups of a list of groups that hold an element
groups_of(listed, element) == {k \in 1..Len(listed) : element \in listed[k]}

\* the Action objects that a set of constraints mentions
elements_of(pairs) == {e[1] : e \in pairs} \cup {e[2] : e \in pairs}

\* toposort has run to its end on the graph of an acyclic constraint set
sorted_acyclic ==
    /\ driver = "display_plan"
    /\ pc \in {"returned", "displayed"}
    /\ ~cyclic(constraints.pairs)

\* C14 as stated: the groups of toposort(convert(constraints)) hold every
\* action once, and a constraint (a, b) has a in an earlier group than b
C14_Original ==
    sorted_acyclic =>
        /\ \A a \in elements_of(constraints.pairs) :
              Cardinality(groups_of(emitted, a)) = 1
        /\ \A e \in constraints.pairs :
              \A i \in groups_of(emitted, e[1]), j \in groups_of(emitted, e[2]) : i < j

\* C14, amended: the groups of toposort(convert(constraints)) hold every
\* action once, and a constraint (a, b) has b in an earlier group than a;
\* the list that display_plan prints is the reverse, with a before b
C14_ReverseTopologicalOrder ==
    sorted_acyclic =>
        /\ \A a \in elements_of(constraints.pairs) :
              Cardinality(groups_of(emitted, a)) = 1
        /\ \A e \in constraints.pairs :
              \A i \in groups_of(emitted, e[1]), j \in groups_of(emitted, e[2]) : j < i
        /\ pc = "displayed" =>
              \A e \in constraints.pairs :
                  \A i \in groups_of(result.value, e[1]),
                     j \in groups_of(result.value, e[2]) : i < j

C14_Witness ==
    /\ sorted_acyclic
    /\ pc = "displayed"
    /\ constraints.pairs = {<<1, 2>>, <<2, 3>>, <<1, 3>>}
    /\ emitted = <<{3}, {2}, {1}>>

\* execute has ended, by a return or by an exception that leaves it
execute_ended == driver = "PartialOrderPlanner" /\ pc = "returned"

\* C15: execute ends within 200 iterations, with an empty agenda or with
\* the report that no solution was found at the cap, and never by an
\* exception that leaves it
C15_ExecuteEnds ==
    /\ driver = "PartialOrderPlanner" => step <= StepLimit + 1
    /\ execute_ended =>
          /\ result.kind \in {"None", "(None, None)"}
          /\ \/ agenda = {}
             \/ result.kind = "(None, None)" /\ "Couldn't find a solution" \in printed

\* an iteration of execute has been made
iterated == driver = "PartialOrderPlanner" /\ step > 1

\* the last iteration got past the loop that adds the preconditions of
\* act0 to the agenda: its second call of add_const was made
preconditions_added ==
    Cardinality({k \in 1..Len(iteration.calls) :
                    iteration.calls[k].op = "add_const"}) = 2

\* C16 as stated: an iteration leaves the agenda exactly one entry smaller
\* than it was at the start of the iteration
C16_Original ==
    iterated => Cardinality(agenda) = Cardinality(iteration.agenda) - 1

\* C16, amended: an iteration that selects (G, act1) and the action act0
\* leaves the agenda without (G, act1) and with (P, act0) for every
\* precondition P of act0; one that selects nothing, or that an exception
\* ends before the preconditions are added, adds nothing
C16_AgendaRefined ==
    iterated =>
        IF ~iteration.selected
        THEN agenda = iteration.agenda
        ELSE /\ <<iteration.G, iteration.act1>> \in iteration.agenda
             /\ agenda =
                  (iteration.agenda \ {<<iteration.G, iteration.act1>>}) \cup
                  (IF preconditions_added
                   THEN {<<iteration.act0.precond[i], iteration.act0>> :
                            i \in 1..Len(iteration.act0.precond)}
                   ELSE {})

C16_Witness ==
    /\ iterated
    /\ iteration.selected
    /\ preconditions_added
    /\ Len(iteration.act0.precond) > 0
    /\ <<iteration.act0.precond[1], iteration.act0>> \notin iteration.agenda
    /\ Cardinality(agenda) >= Cardinality(iteration.agenda)

\* C17: after an iteration of execute the actions, the constraints and the
\* causal links hold everything they held before it, and constraints is a
\* set of ordered pairs
C17_OnlyGrow ==
    iterated =>
        /\ iteration.actions \subseteq actions
        /\ constraints.kind = "set"
        /\ iteration.constraints.pairs \subseteq constraints.pairs
        /\ Len(iteration.causal_links) <= Len(causal_links)
        /\ \A n \in 1..Len(iteration.causal_links) :
              causal_links[n] = iteration.causal_links[n]

\* the calls of protect of the last iteration that returned and in which
\* the action, not an end of the link, has an effect that is the complement
\* of the literal of the link
threat_calls ==
    {k \in 1..Len(iteration.calls) :
        /\ iteration.calls[k].op = "protect"
        /\ iteration.calls[k].raised = "none"
        /\ iteration.calls[k].action # iteration.calls[k].link[1]
        /\ iteration.calls[k].action # iteration.calls[k].link[3]
        /\ threatens(iteration.calls[k].link, iteration.calls[k].action)}

\* the constraints given to call k stay acyclic with the pair
keeps_acyclic(k, pair) ==
    ~cyclic(identities(iteration.calls[k].before.pairs \cup {pair}))

\* the ordering (action, producer) of call k: the action before the producer
before_producer(k) == <<iteration.calls[k].action, iteration.calls[k].link[1]>>

\* the ordering (consumer, action) of call k: the action after the consumer
after_consumer(k) == <<iteration.calls[k].link[3], iteration.calls[k].action>>

\* what add_const makes of the constraints given to call k and the pair:
\* a pair from Finish or to Start is never added
ordered_by(k, pair) ==
    IF pair[1].id = 0 - 1 \/ pair[2].id = 0
    THEN iteration.calls[k].before
    ELSE SetOf(iteration.calls[k].before.pairs \cup {pair})

C19_UnresolvedAborts ==
    (driver = "PartialOrderPlanner" /\ "Unable to resolve a threat" \in printed) =>
        /\ pc = "returned"
        /\ \A k \in 1..Len(iteration.calls) :
              iteration.calls[k].printed => k = Len(iteration.calls)
        /\ result.kind \notin {"None", "(None, None)", "TypeError"}

\* the entries of the agenda at the start of the last iteration whose
\* literal is an effect of no action of the plan and of no expanded action
unachievable ==
    {entry \in iteration.agenda :
        matches(SeqOfSet(iteration.actions) \o expanded_actions, entry[1]) = <<>>}

\* C20: an iteration that starts with an open precondition without a
\* candidate achiever selects no action and ends execute, with an outcome
\* that is not the one of the cap
C20_NoAchieverAborts ==
    (iterated /\ unachievable # {}) =>
        /\ ~iteration.selected
        /\ pc = "returned"
        /\ result.kind # "(None, None)"

\* the last step was a call of do_action on the job numbered call.schema
hla_called == driver = "do_action" /\ call.on = "HLA"

\* the completed jobs of a group are the first ones of its list
completed_prefix(objs, group) ==
    \A i \in 1..Len(group) : \A j \in (i + 1)..Len(group) :
        objs[group[j]].completed => objs[group[i]].completed

\* on entry to the last call some job listed before the job in its group
\* was not completed
prerequisite_pending ==
    \E g \in 1..Len(job_order) :
        \E i \in 1..(index_in(job_order[g], call.schema) - 1) :
            ~on_entry.jobs[job_order[g][i]].completed

\* on entry to the last call the resources that the job uses and consumes
\* were available
resources_available ==
    /\ has_usable_resource(on_entry.jobs[call.schema], on_entry.resources)
    /\ has_consumable_resource(on_entry.jobs[call.schema], on_entry.resources)

preconditions_fail ==
    failing_precond(on_entry.jobs[call.schema], before, call.args) > 0

\* C22: do_action raises when a used or consumed resource is missing or
\* short, when a prerequisite job is not completed or when the
\* preconditions do not hold, and a call that raises leaves the resources,
\* the fact store and the completed flags as they were
C22_RaiseKeepsState ==
    hla_called =>
        /\ (~resources_available \/ prerequisite_pending \/ preconditions_fail)
              => raised # "none"
        /\ raised # "none" =>
              /\ resources = on_entry.resources
              /\ facts = before
              /\ jobs = on_entry.jobs

\* a call raised for its preconditions with resources and order in place,
\* after another call had changed the resources and the facts
C22_Witness ==
    /\ hla_called /\ resources_available /\ ~prerequisite_pending
    /\ preconditions_fail /\ raised = "precond"
    /\ \E n \in 1..Len(jobs) : jobs[n].completed /\ jobs[n].consumes # NoResources
    /\ facts # FolKB(Shop(problem).init)

\* C23: a call of do_action that returns has decreased each resource of
\* consumes by its amount and left every other resource unchanged, and no
\* amount of a resource is ever negative
C23_OnlyConsumed ==
    driver = "do_action" =>
        /\ \A resource \in DOMAIN resources : resources[resource] >= 0
        /\ (hla_called /\ raised = "none") =>
              /\ DOMAIN resources = DOMAIN on_entry.resources
              /\ \A resource \in DOMAIN resources :
                    resources[resource] =
                        IF resource \in DOMAIN jobs[call.schema].consumes
                        THEN on_entry.resources[resource]
                             - jobs[call.schema].consumes[resource]
                        ELSE on_entry.resources[resource]

\* a job that uses one resource and consumes another has been done
C23_Witness ==
    /\ hla_called /\ raised = "none"
    /\ DOMAIN jobs[call.schema].consumes # {}
    /\ DOMAIN jobs[call.schema].uses # {}
    /\ resources # on_entry.resources

\* an operation whose name is the name of a schema of the problem
from_schema(operation) ==
    \E n \in 1..Len(Problem(problem).actions) :
        Problem(problem).actions[n].name = operation.op

\* the schema actions of layer n of the level-ordered plan result.value[1]
schema_actions(n) == {operation \in result.value[1][n] : from_schema(operation)}

\* the number of schema actions in the layers before layer n
RECURSIVE schema_actions_before(_)
schema_actions_before(n) ==
    IF n <= 1 THEN 0
    ELSE schema_actions_before(n - 1) + Cardinality(schema_actions(n - 1))

\* C24: the linear plan is the level-ordered plan flattened in layer order
\* without its persistence actions: the schema actions of the first layer,
\* each once, then those of the second layer, and so on, and nothing else
C24_LinearizeKeepsActions ==
    (driver \in Drivers /\ pc \in {"replay", "replayed", "failed"}) =>
        /\ Len(plan) = schema_actions_before(Len(result.value[1]) + 1)
        /\ \A n \in 1..Len(result.value[1]) :
              {plan[i] : i \in (schema_actions_before(n) + 1)..schema_actions_before(n + 1)}
                  = schema_actions(n)

\* C25: the loop that expands before it tests and the loop that tests
\* before it expands agree on whether a plan is found: when the loop of this
\* run has returned a plan the other loop does not return None on the same
\* problem, and when it has returned None the other does not return a plan
C25_DriverOrdersAgree ==
    (driver \in {"spare_tire_graphplan", "three_block_tower_graphplan"}
        /\ pc = "returned") =>
        LET other == IF driver = "spare_tire_graphplan" THEN "test_first"
                     ELSE "expand_first"
        IN /\ result.kind = "solution" => loop_outcome(other) # "None"
           /\ result.kind = "None" => loop_outcome(other) # "solution"

\* the keys of current_action_links of a level that Level.build registered
\* from a schema: those that are not the persistence action of a fact
schema_keys(level) ==
    {a \in DOMAIN level.current_action_links :
        \A lit \in level.current_state : a # p_expr(lit)}

complementary(p, q) ==
    \/ p = Expr(Not \o q.op, q.args)
    \/ q = Expr(Not \o p.op, p.args)

\* some clause of the list of a is the complement of one of the list of b
clash(links, a, b) ==
    \E i \in 1..Len(links[a]) : \E j \in 1..Len(links[b]) :
        complementary(links[a][i], links[b][j])

achievers(level, p) == Range(level.next_state_links[p])

\* C28: in every built level a pair of next-state propositions is in mutex
\* only when each of them has exactly one achieving action and those
\* achievers are a mutex pair
C28_SingleAchievers ==
    driver \in Drivers =>
        \A k \in 1..Len(levels) :
            \A pair \in levels[k].mutex :
                pair \subseteq DOMAIN levels[k].next_state_links =>
                    /\ \A p \in pair : Cardinality(achievers(levels[k], p)) = 1
                    /\ UNION {achievers(levels[k], p) : p \in pair} \in levels[k].mutex

\* the clauses that the actions of a set have in a link dictionary
clauses_of(links, action_set) ==
    UNION {Range(links[a]) : a \in action_set \cap DOMAIN links}

\* a level-ordered plan for the goals at the newest level: one set of
\* actions of each level before it, in the order of the levels, each set
\* achieving what the next one needs and the last one the goals
complete_plan(lv, gs, item) ==
    /\ Len(item) = Len(lv) - 1
    /\ \A n \in 1..Len(item) :
          /\ item[n] \subseteq DOMAIN lv[n].next_action_links
          /\ (IF n = Len(item) THEN Range(gs)
              ELSE clauses_of(lv[n + 1].current_action_links, item[n + 1]))
                 \subseteq clauses_of(lv[n].next_action_links, item[n])

\* C29: every element of the list that extract_solution returned to the
\* driver is a complete level-ordered plan for the goals
C29_CompletePlans ==
    (driver \in {"spare_tire_graphplan", "three_block_tower_graphplan"}
        /\ result.kind = "solution") =>
        \A n \in 1..Len(result.value) : complete_plan(levels, goals, result.value[n])

\* the candidate achievers of a literal at the start of the last iteration:
\* the actions of the plan and the expanded actions with that effect
candidates(literal) ==
    Range(matches(SeqOfSet(iteration.actions) \o expanded_actions, literal))

\* C30: the literal that find_open_precondition returned is on the agenda
\* and no literal on the agenda has fewer candidate achievers
C30_FewestAchievers ==
    (iterated /\ iteration.selected) =>
        /\ \E open \in iteration.agenda : open[1] = iteration.G
        /\ \A open \in iteration.agenda :
              Cardinality(candidates(iteration.G)) <= Cardinality(candidates(open[1]))

\* the add_const calls of the last iteration of execute
add_const_calls ==
    {k \in 1..Len(iteration.calls) : iteration.calls[k].op = "add_const"}

\* the ordering an add_const call was given
ordering(k) == <<iteration.calls[k].link[1], iteration.calls[k].link[3]>>

\* C31: every call add_const(c, constraints) of execute returns, and it
\* returns the constraints it was given when c starts with Finish, ends with
\* Start or closes a cycle, and the constraints with c added in every other
\* case
C31_AddConstReturns ==
    iterated =>
        \A k \in add_const_calls :
            /\ iteration.calls[k].raised = "none"
            /\ iteration.calls[k].after =
                  IF \/ ordering(k)[1].id = 0 - 1
                     \/ ordering(k)[2].id = 0
                     \/ ~keeps_acyclic(k, ordering(k))
                  THEN iteration.calls[k].before
                  ELSE SetOf(iteration.calls[k].before.pairs \cup {ordering(k)})

\* C31 for the calls that are given a set: none raises, and each returns
\* the set it was given or that set with c added, as stated
C31_OnSets ==
    iterated =>
        \A k \in add_const_calls :
            iteration.calls[k].before.kind = "set" =>
                /\ iteration.calls[k].raised = "none"
                /\ iteration.calls[k].after =
                      IF \/ ordering(k)[1].id = 0 - 1
                         \/ ordering(k)[2].id = 0
                         \/ ~keeps_acyclic(k, ordering(k))
                      THEN iteration.calls[k].before
                      ELSE SetOf(iteration.calls[k].before.pairs \cup {ordering(k)})

RECURSIVE transitive(_)
\* the transitive closure of a set of pairs
transitive(pairs) ==
    LET longer == pairs \cup {<<d[1], e[2]>> : <<d, e>> \in
                                 {t \in pairs \X pairs : t[1][2] = t[2][1]}}
    IN IF longer = pairs THEN pairs ELSE transitive(longer)

\* a set of pairs has a directed cycle: some vertex is reached from itself
\* by one pair or more
has_cycle(pairs) == \E e \in transitive(pairs) : e[1] = e[2]

\* cyclic has returned
cyclic_returned == driver = "cyclic" /\ pc = "returned"

RECURSIVE arrangements(_, _)
\* the number of sequences of k different vertices out of n
arrangements(n, k) == IF k = 0 THEN 1 ELSE (n - k + 1) * arrangements(n, k - 1)

RECURSIVE simple_paths(_, _)
\* the number of sequences of one to k different vertices out of n
simple_paths(n, k) ==
    IF k = 0 THEN 0 ELSE arrangements(n, k) + simple_paths(n, k - 1)

\* the vertices of a set of pairs
vertices_of(pairs) == {e[1] : e \in pairs} \cup {e[2] : e \in pairs}

\* C32: what cyclic returns is True when the pairs hold a directed cycle, a
\* pair (a, a) included, and False when they hold none; and cyclic does
\* return: until it has, any() has a key left or none, every call of visit
\* that has not returned has a neighbor left or none, path holds the
\* vertices of those calls, each once, and visit is called at most once for
\* every sequence of different vertices
C32_CyclicDecides ==
    driver = "cyclic" =>
        /\ pc = "returned" =>
              /\ result.value = has_cycle(constraints.pairs)
              /\ cyclic(constraints.pairs) = result.value
        /\ pc = "any" => frames = <<>> /\ outer <= Len(new_graph.keys)
        /\ pc = "visit" =>
              /\ frames # <<>>
              /\ \A i \in 1..Len(frames) :
                    frames[i].seen <= Len(neighbors(new_graph, frames[i].vertex))
              /\ path = {frames[i].vertex : i \in 1..Len(frames)}
              /\ Cardinality(path) = Len(frames)
        /\ LET n == Cardinality(vertices_of(constraints.pairs))
           IN visits <= simple_paths(n, n)

\* a pair (a, a) is the only cycle and cyclic has returned True
C32_Witness ==
    /\ cyclic_returned
    /\ result.value
    /\ \E e \in constraints.pairs : e[1] = e[2]
    /\ ~has_cycle({e \in constraints.pairs : e[1] # e[2]})
    /\ Cardinality(constraints.pairs) > 2

\* the pairs of propositions that find_mutex has added to the mutex of a
\* built level for inconsistent support
inconsistent_support(level) ==
    state_mutex(level, {q \in level.mutex : q \subseteq DOMAIN level.next_action_links})

\* C33: a pair of propositions that find_mutex has put in the mutex of a
\* level for inconsistent support makes non_mutex_goals False at the next
\* level, where the two are facts, by its index and, when that level is the
\* newest one, by the index -1 as well
C33_SupportMutexRejected ==
    driver \in Drivers =>
        \A k \in 1..(Len(levels) - 1) :
            \A pair \in inconsistent_support(levels[k]) :
                (Cardinality(pair) = 2 /\ pair \subseteq levels[k + 1].current_state) =>
                    /\ ~non_mutex_goals(levels, SeqOfSet(pair), k)
                    /\ k + 1 = Len(levels) => ~non_mutex_goals(levels, SeqOfSet(pair), 0 - 1)

\* the constraints put a before b, directly or through other actions
precedes(a, b) ==
    /\ constraints.kind = "set"
    /\ <<a.id, b.id>> \in transitive(identities(constraints.pairs))

\* the actions of the plan, other than the ends of a causal link, that have
\* the complement of the literal of the link among their effects
threats_to(causal_link) ==
    {A \in actions : /\ A # causal_link[1]
                     /\ A # causal_link[3]
                     /\ threatens(causal_link, A)}

\* C34: when execute has returned with an empty agenda, every action of the
\* plan that threatens a causal link is ordered before the producer of the
\* link or after its consumer
C34_LinksProtected ==
    (execute_ended /\ agenda = {} /\ result.kind = "None") =>
        \A n \in 1..Len(causal_links) :
            \A A \in threats_to(causal_links[n]) :
                \/ precedes(A, causal_links[n][1])
                \/ precedes(causal_links[n][3], A)

\* C34 for the runs in which protect never reported an unresolved threat
C34_ResolvedRuns ==
    (execute_ended /\ agenda = {} /\ result.kind = "None"
        /\ "Unable to resolve a threat" \notin printed) =>
        \A n \in 1..Len(causal_links) :
            \A A \in threats_to(causal_links[n]) :
                \/ precedes(A, causal_links[n][1])
                \/ precedes(causal_links[n][3], A)

\* C35: every causal link (act0, G, act1) that execute has recorded has G
\* among the effects of act0, act0 is another action than act1, and the
\* constraints put act0 before act1, directly or through other actions
C35_LinksSound ==
    driver = "PartialOrderPlanner" =>
        \A n \in 1..Len(causal_links) :
            /\ causal_links[n][2] \in Range(causal_links[n][1].effect)
            /\ causal_links[n][1] # causal_links[n][3]
            /\ precedes(causal_links[n][1], causal_links[n][3])

\* C35 without the ordering: the producer has the literal among its effects
C35_ProducerAchieves ==
    driver = "PartialOrderPlanner" =>
        \A n \in 1..Len(causal_links) :
            causal_links[n][2] \in Range(causal_links[n][1].effect)

\* C35 without the ordering: the producer is not the consumer
C35_EndsDiffer ==
    driver = "PartialOrderPlanner" =>
        \A n \in 1..Len(causal_links) : causal_links[n][1] # causal_links[n][3]

\* C35, the ordering alone, while the constraints are a set
C35_OrderedWhileSet ==
    (driver = "PartialOrderPlanner" /\ constraints.kind = "set") =>
        \A n \in 1..Len(causal_links) :
            precedes(causal_links[n][1], causal_links[n][3])

\* C36: execute prints the no-solution message and returns (None, None)
\* only with an agenda that is not empty
C36_ExhaustedOnlyOpen ==
    (execute_ended /\ (result.kind = "(None, None)"
                         \/ "Couldn't find a solution" \in printed)) =>
        agenda # {}

====
